---- MODULE Spec2Model ----
(***************************************************************************)
(* A model of MoviesdaScraper (src/main.py): the cascading link-resolution *)
(* pipeline scrape_movie -> get_quality_options -> get_download_links ->   *)
(* _get_server_links -> _get_final_mp4_url -> _follow_final_redirect.      *)
(*                                                                         *)
(* One action is one _get_soup call together with the code that runs up to *)
(* the next _get_soup call (or up to the return of the entry point).  The  *)
(* site is the environment: every fetch yields a failure or a page drawn   *)
(* from a small alphabet of page elements.                                 *)
(*                                                                         *)
(* Strings are sequences of tokens.  An href is [form, host, path]: form   *)
(* "abs" is an href that starts with "http" and carries a host, "rel" is a *)
(* path-only href, "protorel" is "//host/path".  Substring tests of the    *)
(* code are membership tests on the needles a token contains.              *)
(***************************************************************************)
EXTENDS Integers, Sequences, FiniteSets, TLC

\* Page elements the site serves during one call, summed over all fetches.
MaxElements == 4

\* for epi_num in range(1, 21)
MaxEpisodes == 20

\* if page > 5: break, in search_movie
MaxSearchPages == 5

\* div.f anchors on one listing page (A-Z index or category)
MaxListed == 2

None == "None"

----------------------------------------------------------------------------
(* Strings *)

\* str.lower() on one token
Lower(tok) ==
  CASE tok = ".MP4" -> ".mp4"
    [] tok = "Original" -> "original"
    [] tok = "HD" -> "hd"
    [] tok = "Download" -> "download"
    [] tok = "Server" -> "server"
    [] tok = "Season-01" -> "season-01"
    [] tok = "Poster" -> "poster"
    [] tok = "Screenshot" -> "screenshot"
    [] tok = "Ted" -> "ted"
    [] tok = "Leo" -> "leo"
    [] tok = "Moviesda" -> "moviesda"
    [] tok = "isaiDub" -> "isaidub"
    [] OTHER -> tok

\* The needles of the code's `needle in s` tests that occur inside a token.
Sub(tok) ==
  CASE tok = "/download/" -> {"/download/", "download"}
    [] tok = "get-download-link" -> {"download"}
    [] tok = "-season-01" -> {"-season-", "season"}
    [] tok = "season-01" -> {"season"}
    [] tok = "seasons" -> {"season"}
    [] tok = "moviesda15.com" -> {"moviesda15.com", "moviesda"}
    [] tok = "isaidub.love" -> {"isaidub.love", "isaidub"}
    [] tok = "downloadpage.site" -> {"download"}
    [] tok = "cdn.biggshare.xyz" -> {"biggshare"}
    [] tok = "s1.hotshare.link" -> {"hotshare"}
    [] tok = "dubshare.one" -> {"dubshare"}
    [] tok = "dubmv.top" -> {"dubmv"}
    [] tok = "uptodub.com" -> {"uptodub"}
    [] tok = "uptomkv.com" -> {"uptomkv"}
    [] tok = "-720p-hd" -> {"-720p-"}
    [] tok = "-480p-hd" -> {"-480p-"}
    [] tok = "(720p" -> {"720p"}
    [] tok = "(480x320)" -> {"NxN"}
    [] tok = "-tamil-dubbed-movie" -> {"-tamil-dubbed-movie", "-dubbed-movie", "-movie"}
    [] tok = "-2012-tamil-movie" -> {"-tamil-movie", "-movie"}
    [] tok = "-tamil-movie" -> {"-tamil-movie", "-movie"}
    [] tok = "-2012-movie" -> {"-movie"}
    [] tok = "-original-movie" -> {"-original-movie", "-movie"}
    [] tok = "-tamil-web-series" -> {"-tamil-web-series"}
    [] OTHER -> {tok}

Range(s) == {s[i] : i \in 1..Len(s)}

\* the tokens of an href as the code sees the string: host first, then path
HrefTokens(h) == (IF h.host = "" THEN {} ELSE {h.host}) \cup Range(h.path)

\* needle in href
In(needle, h) == \E t \in HrefTokens(h) : needle \in Sub(t)

\* needle in href.lower()
InLower(needle, h) == \E t \in HrefTokens(h) : needle \in Sub(Lower(t))

\* needle in text  /  needle in text.lower()
TextIn(needle, text) == \E t \in Range(text) : needle \in Sub(t)
TextInLower(needle, text) == \E t \in Range(text) : needle \in Sub(Lower(t))

\* href.startswith("http")
StartsWithHttp(h) == h.form = "abs"

\* urllib.parse.urljoin(base_url, href) for base_url = scheme://netloc
urljoin(baseHost, h) ==
  CASE h.form = "abs" -> h
    [] h.form = "protorel" -> [h EXCEPT !.form = "abs"]
    [] h.form = "rel" -> [h EXCEPT !.form = "abs", !.host = baseHost]

\* if href.startswith("http"): full_url = href  else: urljoin(base_url, href)
MakeAbsolute(baseHost, h) == IF StartsWithHttp(h) THEN h ELSE urljoin(baseHost, h)

Href(form, host, path) == [form |-> form, host |-> host, path |-> path]

\* Python's None where a URL is expected
NoneUrl == Href("none", "", <<>>)

\* list.reverse()
Reverse(s) == [i \in 1..Len(s) |-> s[Len(s) + 1 - i]]

----------------------------------------------------------------------------
(* Link tests of the page resolver *)

\* "-original-movie" in href or "-movie-original" in href
IsOriginalUrl(href) == In("-original-movie", href) \/ In("-movie-original", href)

\* re.match(r".*/movie/\d+/?$", href): the href ends in /movie/{id}/
IsNumericMovie(href) ==
  Len(href.path) > 0 /\ href.path[Len(href.path)] = "/movie/123/"

\* "-season-" in href and "-dubbed-movie" in href
IsSeasonUrl(href) == In("-season-", href) /\ In("-dubbed-movie", href)

\* any(q in href for q in ["-1080p-", "-720p-", "-480p-", "-360p-"])
HasResolutionInUrl(href) ==
  \E q \in {"-1080p-", "-720p-", "-480p-", "-360p-"} : In(q, href)

\* re.search(r"\d+x\d+", text)
HasDimensionText(text) == TextIn("NxN", text)

\* re.search(r"(1080p|720p|480p|360p)", text, re.IGNORECASE)
HasResolutionText(text) ==
  \E q \in {"1080p", "720p", "480p", "360p"} : TextInLower(q, text)

----------------------------------------------------------------------------
(* Terminal test of the redirect chain walker *)

\* cdn_domains of _get_final_mp4_url
cdn_domains_level2 == {"biggshare", "hotshare", "dubshare", "dubmv", "uptodub", "uptomkv"}

\* cdn_domains of _follow_final_redirect
cdn_domains_level3 == {"biggshare", "hotshare", "dubshare", "uptodub", "uptomkv"}

\* variant: only the media extension is tested
IsTerminal_Mp4Only(href, cdn_domains) == InLower(".mp4", href)

\* is_mp4 or is_cdn
IsTerminal(href, cdn_domains) ==
  InLower(".mp4", href) \/ \E cdn \in cdn_domains : InLower(cdn, href)

\* variant: the startswith("http") test is missing
IsRedirect_AnyHref(href) == InLower("download", href)

\* href.startswith("http") and "download" in href.lower()
IsRedirect(href) == StartsWithHttp(href) /\ InLower("download", href)

----------------------------------------------------------------------------
(* Pages.  A download-style page is a sequence of elements in document     *)
(* order; an element is a div.dlink with its first a[href] (ctx "dlink"), *)
(* a list item with its first a[href], if any, and its size line, if any  *)
(* (ctx "li"), or an anchor elsewhere (ctx "a").  href = NoneUrl: the     *)
(* element holds no a[href].                                               *)

El(ctx, href, text, coral, size) ==
  [ctx |-> ctx, href |-> href, text |-> text, coral |-> coral, size |-> size]

HasLink(e) == e.href # NoneUrl

\* soup.select("div.dlink"), each with div.find("a", href=True)
SelectDlink(els) == SelectSeq(els, LAMBDA e : e.ctx = "dlink" /\ HasLink(e))

\* soup.find_all("a", href=True)
FindAllA(els) == SelectSeq(els, HasLink)

\* soup.find_all("li")
FindAllLi(els) == SelectSeq(els, LAMBDA e : e.ctx = "li")

\* soup.select("li a.coral")
SelectLiCoral(els) == SelectSeq(els, LAMBDA e : e.ctx = "li" /\ HasLink(e) /\ e.coral)

\* re.search(r"File Size[:\s]*(\d+\.?\d*\s*[GMKT]B)", li_text, re.IGNORECASE)
\* size = "" : no match; otherwise the matched group
SizeMatch(e) == e.size # ""

\* soup.select("div.dlink a") is non-empty
HasDlinkAnchors(els) == \E i \in 1..Len(els) : els[i].ctx = "dlink"

----------------------------------------------------------------------------
(* get_movie_images.  An <img> is [src, alt] (src = NoneUrl: no src); a    *)
(* <picture> is [srcset, img]: the candidates of its <source srcset>, in   *)
(* order (<<>>: no source or an empty srcset), and the src of its <img>.   *)

NoImages == [poster_url |-> NoneUrl, screenshots |-> <<>>]

RECURSIVE ScanImgs(_, _, _)
ScanImgs(imgs, baseHost, images) ==
  IF imgs = <<>> THEN images
  ELSE LET img == Head(imgs)
           abs_src == MakeAbsolute(baseHost, img.src)
       IN  IF img.src = NoneUrl
             THEN ScanImgs(Tail(imgs), baseHost, images)
           ELSE IF In("/uploads/posters/", abs_src) \/ TextInLower("poster", img.alt)
             THEN ScanImgs(Tail(imgs), baseHost, [images EXCEPT !.poster_url = abs_src])
           ELSE IF In("/uploads/screen_shots/", abs_src) \/ TextInLower("screenshot", img.alt)
             THEN ScanImgs(Tail(imgs), baseHost,
                           [images EXCEPT !.screenshots = Append(@, abs_src)])
           ELSE ScanImgs(Tail(imgs), baseHost, images)

RECURSIVE ScanPictures(_, _, _)
ScanPictures(pics, baseHost, images) ==
  IF pics = <<>> THEN images
  ELSE LET picture == Head(pics)
           afterSource ==
             IF picture.srcset # <<>>
                /\ \E i \in 1..Len(picture.srcset) : In("/uploads/posters/", picture.srcset[i])
               THEN [images EXCEPT !.poster_url = MakeAbsolute(baseHost, picture.srcset[1])]
               ELSE images
           afterImg ==
             IF picture.img # NoneUrl /\ afterSource.poster_url = NoneUrl
                /\ In("/uploads/posters/", picture.img)
               THEN [afterSource EXCEPT !.poster_url = MakeAbsolute(baseHost, picture.img)]
               ELSE afterSource
       IN  ScanPictures(Tail(pics), baseHost, afterImg)

get_movie_images(page, baseHost) ==
  ScanPictures(page.pics, baseHost, ScanImgs(page.imgs, baseHost, NoImages))

----------------------------------------------------------------------------
(* Quality options and download entries *)

\* {"quality": .., "url": .., "is_direct_download": ..}; file_size = None: no such key
Quality(text, url, direct) ==
  [quality |-> text, url |-> url, is_direct_download |-> direct, file_size |-> None]

\* {"filename": .., "intermediate_url": .., "direct_links": .., "file_size": ..}
Download(text, url, servers, size) ==
  [filename |-> text, intermediate_url |-> url, direct_links |-> servers,
   file_size |-> size]

\* {"server_name": .., "level1_url": .., "mp4_url": ..}
Server(text, href, mp4) == [server_name |-> text, level1_url |-> href, mp4_url |-> mp4]

\* the loop body of _get_quality_from_original_page, over the div.f anchors
RECURSIVE OriginalQualities(_, _)
OriginalQualities(f, baseHost) ==
  IF f = <<>> THEN <<>>
  ELSE LET a == Head(f)
           rest == OriginalQualities(Tail(f), baseHost)
       IN  IF HasResolutionInUrl(a.href)
             THEN <<Quality(a.text, MakeAbsolute(baseHost, a.href), FALSE)>> \o rest
           ELSE IF IsNumericMovie(a.href) /\ HasResolutionText(a.text)
             THEN <<Quality(a.text, MakeAbsolute(baseHost, a.href), FALSE)>> \o rest
           ELSE rest

\* variant: the size line is handled before the download link of the same item
RECURSIVE SeasonScan_SizeFirst(_, _, _)
SeasonScan_SizeFirst(lis, baseHost, episodes) ==
  IF lis = <<>> THEN episodes
  ELSE LET li == Head(lis)
           isDownload == HasLink(li) /\ In("/download/", li.href)
           episode_name == IF li.text # <<>> THEN li.text ELSE <<"Episode">>
           sized ==
             IF SizeMatch(li) /\ episodes # <<>>
               THEN [episodes EXCEPT ![Len(episodes)].file_size = li.size]
               ELSE episodes
           appended ==
             IF isDownload
               THEN Append(sized,
                           Quality(episode_name, MakeAbsolute(baseHost, li.href), TRUE))
               ELSE sized
       IN  SeasonScan_SizeFirst(Tail(lis), baseHost, appended)

\* the loop of _get_episodes_from_season_page over soup.find_all("li"):
\* episodes in document order; current_episode is the last one appended
RECURSIVE SeasonScan(_, _, _)
SeasonScan(lis, baseHost, episodes) ==
  IF lis = <<>> THEN episodes
  ELSE LET li == Head(lis)
           isDownload == HasLink(li) /\ In("/download/", li.href)
           episode_name == IF li.text # <<>> THEN li.text ELSE <<"Episode">>
           appended ==
             IF isDownload
               THEN Append(episodes,
                           Quality(episode_name, MakeAbsolute(baseHost, li.href), TRUE))
               ELSE episodes
           sized ==
             IF SizeMatch(li) /\ appended # <<>>
               THEN [appended EXCEPT ![Len(appended)].file_size = li.size]
               ELSE appended
       IN  SeasonScan(Tail(lis), baseHost, sized)

\* variant: episodes.reverse() is missing
SeasonEpisodes_NoReverse(els, baseHost) == SeasonScan(FindAllLi(els), baseHost, <<>>)

\* _get_episodes_from_season_page on a fetched page: scan, then episodes.reverse()
SeasonEpisodes(els, baseHost) == Reverse(SeasonScan(FindAllLi(els), baseHost, <<>>))

\* get_download_links: for link in soup.select("li a.coral")
RECURSIVE CoralDownloads(_, _)
CoralDownloads(links, baseHost) ==
  IF links = <<>> THEN <<>>
  ELSE LET link == Head(links)
           rest == CoralDownloads(Tail(links), baseHost)
       IN  IF In("/download/", link.href)
             THEN <<Download(link.text, MakeAbsolute(baseHost, link.href), <<>>, None)>>
                  \o rest
             ELSE rest

\* get_download_links: if not downloads: for link in soup.find_all("a", href=True)
RECURSIVE TextDownloads(_, _)
TextDownloads(links, baseHost) ==
  IF links = <<>> THEN <<>>
  ELSE LET link == Head(links)
           rest == TextDownloads(Tail(links), baseHost)
       IN  IF In("/download/", link.href)
              /\ (TextInLower(".mp4", link.text) \/ TextInLower("hd", link.text))
             THEN <<Download(link.text, MakeAbsolute(baseHost, link.href), <<>>, None)>>
                  \o rest
             ELSE rest

\* variant: a size line is written to the first entry, downloads[0]
RECURSIVE SizeLines_ToFirst(_, _)
SizeLines_ToFirst(lis, downloads) ==
  IF lis = <<>> THEN downloads
  ELSE IF SizeMatch(Head(lis)) /\ downloads # <<>>
    THEN SizeLines_ToFirst(Tail(lis), [downloads EXCEPT ![1].file_size = Head(lis).size])
    ELSE SizeLines_ToFirst(Tail(lis), downloads)

\* get_download_links: for li in soup.find_all("li"): downloads[-1]["file_size"] = ..
RECURSIVE SizeLines(_, _)
SizeLines(lis, downloads) ==
  IF lis = <<>> THEN downloads
  ELSE IF SizeMatch(Head(lis)) /\ downloads # <<>>
    THEN SizeLines(Tail(lis),
                   [downloads EXCEPT ![Len(downloads)].file_size = Head(lis).size])
    ELSE SizeLines(Tail(lis), downloads)

\* variant: the scan of all anchors is not guarded by "if not downloads"
ExtractDownloads_BothScans(els, baseHost) ==
  SizeLines(FindAllLi(els), CoralDownloads(SelectLiCoral(els), baseHost)
                              \o TextDownloads(FindAllA(els), baseHost))

\* the downloads list of get_download_links before the server links are resolved
ExtractDownloads(els, baseHost) ==
  LET coral == CoralDownloads(SelectLiCoral(els), baseHost)
      downloads == IF coral # <<>> THEN coral ELSE TextDownloads(FindAllA(els), baseHost)
  IN  SizeLines(FindAllLi(els), downloads)

----------------------------------------------------------------------------
(* _scan_moviesda_episodes: the series URL *)

\* "primary": r"/([^/]+?)-season-(\d+)(?:-\d{4})?(?:-[^/]+)?-tamil-movie/?$" matches;
\* "fallback": only r"/([^/]+)-season-(\d+)" matches; "none": neither does
ParseSeriesUrl(movie_url) ==
  LET p == movie_url.path
      seasonAt == {i \in 2..Len(p) : p[i] = "-season-01"}
  IN  IF seasonAt # {} /\ p[Len(p)] = "-tamil-movie" THEN "primary"
      ELSE IF seasonAt # {} THEN "fallback"
      ELSE "none"

\* series_slug = match.group(1): lazy in the primary pattern, greedy in the fallback
SeriesSlug(movie_url) ==
  LET p == movie_url.path
      seasonAt == {i \in 2..Len(p) : p[i] = "-season-01"}
      cut == IF ParseSeriesUrl(movie_url) = "primary"
               THEN CHOOSE i \in seasonAt : \A j \in seasonAt : i <= j
               ELSE CHOOSE i \in seasonAt : \A j \in seasonAt : i >= j
  IN  SubSeq(p, 1, cut - 1)

\* str(epi_num).zfill(2)
Zfill2(n) == IF n < 10 THEN "0" \o ToString(n) ELSE ToString(n)

\* f"{base_url}/download/{series_slug}-season-{season_num}-epi-{epi_str}/"
EpisodeUrl(baseHost, movie_url, epi_num) ==
  Href("abs", baseHost,
       <<"/download/">> \o SeriesSlug(movie_url) \o <<"-season-01", "-epi-", Zfill2(epi_num)>>)

----------------------------------------------------------------------------
(* State *)

VARIABLES
  pc,      \* the _get_soup call the program is about to make; "idle", "done"
  entry,   \* the method called on the scraper
  budget,  \* page elements the site may still serve
  ret,     \* the value returned by the entry method
  sm,      \* scrape_movie: result, the quality options, the loop positions
  gq,      \* get_quality_options: movie_url, div.f anchors left, qualities, images
  sc,      \* _scan_moviesda_episodes: epi_num, episodes, the episode numbers fetched
  dl,      \* get_download_links: quality_url, downloads, index of the next download
  gs,      \* _get_server_links: caller, url, page, anchors left, servers
  fm,      \* _get_final_mp4_url: level1_url, page, anchors left, the fetches made
  se,      \* _get_episodes_from_season_page: the page it fetched
  ss,      \* smart_search_movie: the guessed URLs left, matches, the fetches made
  sr,      \* search_movie: query, page number, matches, the fetches made
  ct,      \* get_movies_from_category: page number, movies, the fetches made
  gi,      \* get_movie_images: the soup it was called with
  fetched, \* the _get_soup calls made so far
  failed,  \* the call site whose _get_soup has just returned None, or ""
  wire     \* what the last _get_soup call did: its delays and requests, in order

vars == <<pc, entry, budget, ret, sm, gq, sc, dl, gs, fm, se, ss, sr, ct, gi, fetched,
          failed, wire>>

\* the state as one record, for the operators that run the code between two fetches
Cur == [pc |-> pc, entry |-> entry, budget |-> budget, ret |-> ret, sm |-> sm,
        gq |-> gq, sc |-> sc, dl |-> dl, gs |-> gs, fm |-> fm, se |-> se,
        ss |-> ss, sr |-> sr, ct |-> ct, gi |-> gi, fetched |-> fetched,
        failed |-> failed, wire |-> wire]

Becomes(s) ==
  /\ pc' = s.pc /\ entry' = s.entry /\ budget' = s.budget /\ ret' = s.ret
  /\ sm' = s.sm /\ gq' = s.gq /\ sc' = s.sc /\ dl' = s.dl /\ gs' = s.gs /\ fm' = s.fm
  /\ se' = s.se /\ ss' = s.ss /\ sr' = s.sr /\ ct' = s.ct /\ gi' = s.gi
  /\ fetched' = s.fetched
  /\ failed' = s.failed /\ wire' = s.wire

NoResult == [movie_url |-> NoneUrl, poster_url |-> NoneUrl, screenshots |-> <<>>,
             qualities |-> <<>>]

\* sm.page: the quality page last fetched by scrape_movie itself, for which option,
\* and how many times the URL of that option has been requested so far
NoPage == [of |-> 0, ok |-> FALSE, els |-> <<>>, fetches |-> 0]
smIdle == [result |-> NoResult, options |-> <<>>, qi |-> 0, lis |-> <<>>,
           downloads |-> <<>>, page |-> NoPage]
\* gq.ok, gq.f: whether the movie page was fetched, and its div.f anchors; gq.orig:
\* the Original page fetched during this call; gq.seasons: what each call of
\* _get_episodes_from_season_page made during this call returned, in order
NoOriginal == [fetched |-> FALSE, ok |-> FALSE, f |-> <<>>]
gqIdle == [movie_url |-> NoneUrl, ok |-> FALSE, f |-> <<>>, rest |-> <<>>,
           qualities |-> <<>>, images |-> NoImages, orig |-> NoOriginal,
           seasons |-> <<>>]
\* sc.probed: the episode numbers fetched so far, each with what the probe found
scIdle == [movie_url |-> NoneUrl, baseHost |-> "", epi_num |-> 0, episodes |-> <<>>,
           probed |-> <<>>]
\* dl.ok, dl.els: whether the quality page was fetched, and its elements
dlIdle == [quality_url |-> NoneUrl, ok |-> FALSE, els |-> <<>>, downloads |-> <<>>,
           di |-> 0]
gsIdle == [caller |-> "", url |-> NoneUrl, phase |-> "", els |-> <<>>, rest |-> <<>>,
           servers |-> <<>>]
\* fm.dlinks, fm.all: the level-1 page; fm.redirects: the URLs _follow_final_redirect
\* was called with during this call and the pages it fetched, in order; fm.fetches: the _get_soup calls of this call
fmIdle == [caller |-> "", level1_url |-> NoneUrl, ok |-> FALSE, dlinks |-> <<>>,
           rest |-> <<>>, all |-> <<>>, redirects |-> <<>>, fetches |-> 0]
seIdle == [ok |-> FALSE, els |-> <<>>]
\* ss.guesses: len(possible_urls); ss.rest: the guessed URLs not yet tried
ssIdle == [base_url |-> "", query |-> <<>>, max_results |-> 0, guesses |-> 0,
           rest |-> <<>>, matches |-> <<>>, fetches |-> 0]
srIdle == [base_url |-> "", query_lower |-> "", max_results |-> 0,
           search_url |-> NoneUrl, page |-> 0, url |-> NoneUrl, matches |-> <<>>,
           fetches |-> 0]
ctIdle == [category_url |-> NoneUrl, max_pages |-> 0, page |-> 0, url |-> NoneUrl,
           movies |-> <<>>, fetches |-> 0]

\* an exception leaves every frame: no caller of _get_soup has a try block
Raise(s) == [s EXCEPT !.pc = "raised"]

\* return of the entry method
Finish(s, value) == [s EXCEPT !.pc = "done", !.ret = value]

----------------------------------------------------------------------------
(* Calls: the callee's frame up to its first _get_soup *)

\* self._get_server_links(url)
GS_Call(s, url, caller) ==
  [s EXCEPT !.pc = "gs_fetch", !.gs = [gsIdle EXCEPT !.caller = caller, !.url = url]]

\* self._get_final_mp4_url(href)
FM_Call(s, href, caller) ==
  [s EXCEPT !.pc = "fm_fetch", !.fm = [fmIdle EXCEPT !.caller = caller, !.level1_url = href]]

\* self.get_download_links(quality_url)
DL_Call(s, quality_url) ==
  [s EXCEPT !.pc = "dl_fetch", !.dl = [dlIdle EXCEPT !.quality_url = quality_url]]

----------------------------------------------------------------------------
(* scrape_movie, lines 914-992 *)

\* for quality in qualities: the next _get_soup, or return result
SM_Loop(s) ==
  IF s.sm.qi > Len(s.sm.options) THEN Finish(s, s.sm.result)
  ELSE LET quality == s.sm.options[s.sm.qi]
       IN  IF quality.is_direct_download
             THEN [s EXCEPT !.pc = "direct_fetch"]
             ELSE DL_Call(s, quality.url)

\* variant: a quality without downloads is not appended
SM_Append_SkipsEmpty(s, downloads) ==
  LET quality == s.sm.options[s.sm.qi]
      quality_info == [quality |-> quality.quality, downloads |-> downloads]
  IN  SM_Loop([s EXCEPT !.sm.result.qualities =
                          IF downloads = <<>> THEN @ ELSE Append(@, quality_info),
                        !.sm.qi = @ + 1, !.sm.lis = <<>>, !.sm.downloads = <<>>])

\* result["qualities"].append(quality_info), then the next quality
SM_Append(s, downloads) ==
  LET quality == s.sm.options[s.sm.qi]
      quality_info == [quality |-> quality.quality, downloads |-> downloads]
  IN  SM_Loop([s EXCEPT !.sm.result.qualities = Append(@, quality_info),
                        !.sm.qi = @ + 1, !.sm.lis = <<>>, !.sm.downloads = <<>>])

\* for li in quality_soup.find_all("li"): up to the next _get_server_links call.
\* sm.lis holds the list items from the current one on, sm.downloads the entries so
\* far; current_download is the last of them
RECURSIVE SM_LiLoop(_)
SM_LiLoop(s) ==
  IF s.sm.lis = <<>> THEN SM_Append(s, s.sm.downloads)
  ELSE LET li == Head(s.sm.lis)
           baseHost == s.sm.options[s.sm.qi].url.host
       IN  IF HasLink(li) /\ In("/download/", li.href)
             THEN GS_Call(s, MakeAbsolute(baseHost, li.href), "sm_li")
           ELSE IF SizeMatch(li) /\ s.sm.downloads # <<>>
             THEN SM_LiLoop([s EXCEPT !.sm.lis = Tail(@),
                               !.sm.downloads[Len(s.sm.downloads)].file_size = li.size])
           ELSE SM_LiLoop([s EXCEPT !.sm.lis = Tail(@)])

\* back from _get_server_links(download_url) in the list-item loop
SM_LiResume(s, server_links) ==
  LET li == Head(s.sm.lis)
      baseHost == s.sm.options[s.sm.qi].url.host
      current_download ==
        Download(li.text, MakeAbsolute(baseHost, li.href), server_links,
                 IF SizeMatch(li) THEN li.size ELSE "")
  IN  SM_LiLoop([s EXCEPT !.sm.lis = Tail(@),
                          !.sm.downloads = Append(@, current_download)])

\* variant: no entry when no server link was found
SM_DlinkResume_NeedsServers(s, server_links) ==
  LET quality == s.sm.options[s.sm.qi]
  IN  SM_Append(s, IF server_links = <<>> THEN <<>>
                   ELSE <<Download(quality.quality, quality.url, server_links, "")>>)

\* back from _get_server_links(quality["url"]) on a page with div.dlink anchors
SM_DlinkResume(s, server_links) ==
  LET quality == s.sm.options[s.sm.qi]
  IN  SM_Append(s, <<Download(quality.quality, quality.url, server_links, "")>>)

----------------------------------------------------------------------------
(* get_download_links, lines 731-737 *)

DL_Return(s, downloads) ==
  IF s.entry = "get_download_links" THEN Finish(s, downloads)
  ELSE SM_Append([s EXCEPT !.dl = dlIdle], downloads)

\* for download in downloads: the next _get_server_links call, or return
DL_Loop(s) ==
  IF s.dl.di > Len(s.dl.downloads) THEN DL_Return(s, s.dl.downloads)
  ELSE GS_Call(s, s.dl.downloads[s.dl.di].intermediate_url, "dl")

DL_Resume(s, server_links) ==
  DL_Loop([s EXCEPT !.dl.downloads[s.dl.di].direct_links = server_links,
                    !.dl.di = @ + 1])

----------------------------------------------------------------------------
(* _get_server_links, lines 756-798 *)

GS_Return(s, servers) ==
  LET t == [s EXCEPT !.gs = IF s.gs.caller = "entry" THEN @ ELSE gsIdle]
  IN  CASE s.gs.caller = "entry" -> Finish(t, servers)
        [] s.gs.caller = "sm_dlink" -> SM_DlinkResume(t, servers)
        [] s.gs.caller = "sm_li" -> SM_LiResume(t, servers)
        [] s.gs.caller = "dl" -> DL_Resume(t, servers)

\* the test that sends an anchor to _get_final_mp4_url, in either loop
IsServerLink(phase, a) ==
  IF phase = "dlink" THEN StartsWithHttp(a.href)
  ELSE /\ TextInLower("download", a.text) \/ TextInLower("server", a.text)
       /\ StartsWithHttp(a.href)
       /\ ~In("moviesda15.com", a.href) /\ ~In("isaidub.love", a.href)

\* the div.dlink loop, then (if not servers) the loop over all anchors: up to the
\* next _get_final_mp4_url call (gs.rest holds the anchors from the current one on)
RECURSIVE GS_Loop(_)
GS_Loop(s) ==
  IF s.gs.rest = <<>>
    THEN IF s.gs.phase = "dlink" /\ s.gs.servers = <<>>
           THEN GS_Loop([s EXCEPT !.gs.phase = "fallback", !.gs.rest = FindAllA(s.gs.els)])
           ELSE GS_Return(s, s.gs.servers)
  ELSE IF IsServerLink(s.gs.phase, Head(s.gs.rest))
    THEN FM_Call(s, Head(s.gs.rest).href, "gs")
  ELSE GS_Loop([s EXCEPT !.gs.rest = Tail(@)])

\* variant: a server link that did not resolve is not recorded
GS_Resume_DropsUnresolved(s, final_mp4_url) ==
  LET a == Head(s.gs.rest)
      servers == Append(s.gs.servers, Server(a.text, a.href, final_mp4_url))
  IN  IF final_mp4_url # NoneUrl
        THEN GS_Return(s, servers)
        ELSE GS_Loop([s EXCEPT !.gs.rest = Tail(@)])

\* variant: "if final_mp4_url: break" is missing
GS_Resume_NoBreak(s, final_mp4_url) ==
  LET a == Head(s.gs.rest)
      servers == Append(s.gs.servers, Server(a.text, a.href, final_mp4_url))
  IN  GS_Loop([s EXCEPT !.gs.servers = servers, !.gs.rest = Tail(@)])

\* back from _get_final_mp4_url: servers.append(..); if final_mp4_url: break
GS_Resume(s, final_mp4_url) ==
  LET a == Head(s.gs.rest)
      servers == Append(s.gs.servers, Server(a.text, a.href, final_mp4_url))
  IN  IF final_mp4_url # NoneUrl
        THEN GS_Return(s, servers)
        ELSE GS_Loop([s EXCEPT !.gs.servers = servers, !.gs.rest = Tail(@)])

----------------------------------------------------------------------------
(* _get_final_mp4_url, lines 820-853 *)

FM_Return(s, url) ==
  IF s.fm.caller = "entry" THEN Finish(s, url)
  ELSE GS_Resume([s EXCEPT !.fm = fmIdle], url)

\* for link in soup.find_all("a", href=True): the first terminal href, or None
RECURSIVE FirstTerminal(_, _)
FirstTerminal(links, cdn_domains) ==
  IF links = <<>> THEN NoneUrl
  ELSE IF IsTerminal(Head(links).href, cdn_domains) THEN Head(links).href
  ELSE FirstTerminal(Tail(links), cdn_domains)

\* for div in soup.select("div.dlink"): up to the next _follow_final_redirect call
\* (fm.rest holds the anchors from the current one on), then the second loop
RECURSIVE FM_Loop(_)
FM_Loop(s) ==
  IF s.fm.rest = <<>> THEN FM_Return(s, FirstTerminal(s.fm.all, cdn_domains_level2))
  ELSE LET href == Head(s.fm.rest).href
       IN  IF IsTerminal(href, cdn_domains_level2) THEN FM_Return(s, href)
           ELSE IF IsRedirect(href) THEN [s EXCEPT !.pc = "fr_fetch"]
           ELSE FM_Loop([s EXCEPT !.fm.rest = Tail(@)])

\* variant: a redirect that gives no final URL is followed again
FM_Resume_FollowsAgain(s, final_url) ==
  IF final_url # NoneUrl THEN FM_Return(s, final_url)
  ELSE [s EXCEPT !.pc = "fr_fetch"]

\* back from _follow_final_redirect: if final_url: return final_url
FM_Resume(s, final_url) ==
  IF final_url # NoneUrl THEN FM_Return(s, final_url)
  ELSE FM_Loop([s EXCEPT !.fm.rest = Tail(@)])

----------------------------------------------------------------------------
(* get_quality_options, lines 414-480, and _scan_moviesda_episodes *)

\* return qualities, images
GQ_Return(s, qualities, images) ==
  IF s.entry = "get_quality_options" THEN Finish(s, <<qualities, images>>)
  ELSE SM_Loop([s EXCEPT !.gq = [gqIdle EXCEPT !.movie_url = s.gq.movie_url,
                                                !.ok = s.gq.ok, !.f = s.gq.f],
                         !.sc = scIdle,
                         !.sm.options = qualities, !.sm.qi = 1,
                         !.sm.result.poster_url = images.poster_url,
                         !.sm.result.screenshots = images.screenshots])

\* return episodes.  In get_quality_options: if episodes: qualities = episodes
SC_Return(s, episodes) ==
  IF s.entry = "_scan_moviesda_episodes" THEN Finish(s, episodes)
  ELSE GQ_Return(s, IF episodes # <<>> THEN episodes ELSE s.gq.qualities, s.gq.images)

\* self._scan_moviesda_episodes(movie_url, base_url) up to its first _get_soup
SC_Call(s, movie_url, baseHost) ==
  LET t == [s EXCEPT !.sc = [scIdle EXCEPT !.movie_url = movie_url,
                                           !.baseHost = baseHost, !.epi_num = 1]]
  IN  IF ParseSeriesUrl(movie_url) = "none" THEN SC_Return(t, <<>>)
      ELSE [t EXCEPT !.pc = "scan_fetch"]

\* variant: the "moviesda" in base_url test is missing
GQ_AfterLoop_AnySite(s) ==
  IF s.gq.qualities = <<>> /\ InLower("season", s.gq.movie_url)
    THEN SC_Call(s, s.gq.movie_url, s.gq.movie_url.host)
    ELSE GQ_Return(s, s.gq.qualities, s.gq.images)

\* after the anchor loop: if not qualities and "season" in movie_url.lower() and
\* "moviesda" in base_url: scan; return qualities, images
GQ_AfterLoop(s) ==
  IF s.gq.qualities = <<>> /\ InLower("season", s.gq.movie_url)
     /\ "moviesda" \in Sub(s.gq.movie_url.host)
    THEN SC_Call(s, s.gq.movie_url, s.gq.movie_url.host)
    ELSE GQ_Return(s, s.gq.qualities, s.gq.images)

\* the direct-quality tests at the end of the loop body, lines 450-471
AddQuality(qualities, a, baseHost) ==
  IF HasResolutionInUrl(a.href)
    THEN Append(qualities, Quality(a.text, MakeAbsolute(baseHost, a.href), FALSE))
  ELSE IF IsNumericMovie(a.href) /\ HasDimensionText(a.text)
    THEN Append(qualities, Quality(a.text, MakeAbsolute(baseHost, a.href), TRUE))
  ELSE qualities

\* for div in soup.select("div.f"): up to the next _get_soup (gq.rest holds the
\* anchors from the current one on)
RECURSIVE GQ_Loop(_)
GQ_Loop(s) ==
  IF s.gq.rest = <<>> THEN GQ_AfterLoop(s)
  ELSE LET a == Head(s.gq.rest)
       IN  IF IsOriginalUrl(a.href) THEN [s EXCEPT !.pc = "orig_fetch"]
           ELSE IF IsNumericMovie(a.href) /\ TextInLower("original", a.text)
             THEN [s EXCEPT !.pc = "orig_fetch"]
           ELSE IF IsSeasonUrl(a.href) THEN [s EXCEPT !.pc = "season_fetch"]
           ELSE GQ_Loop([s EXCEPT !.gq.rest = Tail(@),
                           !.gq.qualities = AddQuality(@, a, s.gq.movie_url.host)])

\* variant: the episodes of a season page never end the loop over the anchors
GQ_SeasonResume_GoesOn(s, season_qualities) ==
  GQ_Loop([s EXCEPT !.gq.rest = Tail(@),
             !.gq.qualities = AddQuality(@, Head(s.gq.rest), s.gq.movie_url.host)])

\* back from _get_episodes_from_season_page: if season_qualities: return them;
\* otherwise the same anchor goes on to the direct-quality tests
GQ_SeasonResume(s, season_qualities) ==
  IF season_qualities # <<>> THEN GQ_Return(s, season_qualities, s.gq.images)
  ELSE GQ_Loop([s EXCEPT !.gq.rest = Tail(@),
                  !.gq.qualities = AddQuality(@, Head(s.gq.rest), s.gq.movie_url.host)])

\* variant: a missing episode is skipped (continue) instead of ending the scan (break)
SC_Step_Continue(s, ok, els, title) ==
  LET n == s.sc.epi_num
      episode_url == EpisodeUrl(s.sc.baseHost, s.sc.movie_url, n)
      episode_title == IF title # <<>> THEN <<Head(title)>> ELSE <<"Episode", ToString(n)>>
      found == ok /\ HasDlinkAnchors(els)
      episodes == IF found
                    THEN Append(s.sc.episodes, Quality(episode_title, episode_url, TRUE))
                    ELSE s.sc.episodes
      t == [s EXCEPT !.sc.probed = Append(@, [epi_num |-> n, found |-> found])]
  IN  IF n + 1 > MaxEpisodes THEN SC_Return(t, episodes)
      ELSE [t EXCEPT !.sc.episodes = episodes, !.sc.epi_num = n + 1]

\* the episode loop body after a fetch, lines 523-544
SC_Step(s, ok, els, title) ==
  LET n == s.sc.epi_num
      episode_url == EpisodeUrl(s.sc.baseHost, s.sc.movie_url, n)
      episode_title == IF title # <<>> THEN <<Head(title)>> ELSE <<"Episode", ToString(n)>>
      found == ok /\ HasDlinkAnchors(els)
      t == [s EXCEPT !.sc.probed = Append(@, [epi_num |-> n, found |-> found])]
  IN  IF found
        THEN LET episodes == Append(s.sc.episodes, Quality(episode_title, episode_url, TRUE))
             IN  IF n + 1 > MaxEpisodes THEN SC_Return(t, episodes)
                 ELSE [t EXCEPT !.sc.episodes = episodes, !.sc.epi_num = n + 1]
        ELSE SC_Return(t, s.sc.episodes)

----------------------------------------------------------------------------
(* smart_search_movie, lines 190-245.  A query is a sequence of words; a   *)
(* word "(2012)" is a year in parentheses.                                 *)

\* re.search(r"\((\d{4})\)", query): the year, or "" for None
YearOf(query) ==
  IF \E i \in 1..Len(query) : query[i] = "(2012)" THEN "2012" ELSE ""

\* re.sub(r"\s*\(\d{4}\)\s*$", "", query).strip()
QueryClean(query) ==
  IF query # <<>> /\ query[Len(query)] = "(2012)" THEN SubSeq(query, 1, Len(query) - 1)
  ELSE query

\* query_clean.lower().replace(" ", "-").replace("'", ""): the words in lower case
\* (joined by "-")
MovieSlug(query_clean) == [i \in 1..Len(query_clean) |-> Lower(query_clean[i])]

IsIsaidub(base_url) == "isaidub" \in Sub(base_url)

\* variant: the patterns with the year are not generated
PossibleUrls_WithoutYear(base_url, movie_slug, year) ==
  IF IsIsaidub(base_url)
    THEN <<Href("abs", base_url, <<"/movie/">> \o movie_slug \o <<"-tamil-dubbed-movie/">>)>>
    ELSE <<Href("abs", base_url, movie_slug \o <<"-movie/">>),
           Href("abs", base_url, movie_slug \o <<"-tamil-movie/">>)>>

\* possible_urls, lines 206-218
PossibleUrls(base_url, movie_slug, year) ==
  IF IsIsaidub(base_url)
    THEN (IF year # ""
            THEN <<Href("abs", base_url, <<"/movie/">> \o movie_slug
                                          \o <<"-" \o year, "-tamil-dubbed-movie/">>)>>
            ELSE <<>>)
         \o <<Href("abs", base_url, <<"/movie/">> \o movie_slug \o <<"-tamil-dubbed-movie/">>)>>
    ELSE (IF year # ""
            THEN <<Href("abs", base_url, movie_slug \o <<"-" \o year, "-movie/">>),
                   Href("abs", base_url, movie_slug \o <<"-" \o year, "-tamil-movie/">>)>>
            ELSE <<>>)
         \o <<Href("abs", base_url, movie_slug \o <<"-movie/">>),
               Href("abs", base_url, movie_slug \o <<"-tamil-movie/">>)>>

\* re.sub(r"\s*(Tamil Dubbed Movie Download|Download|isaiDub|Moviesda).*", "",
\*        page_title, flags=re.IGNORECASE).strip()
StripSiteName(page_title) ==
  LET at == {i \in 1..Len(page_title) :
               Lower(page_title[i]) \in {"download", "isaidub", "moviesda"}}
  IN  IF at = {} THEN page_title
      ELSE SubSeq(page_title, 1, (CHOOSE i \in at : \A k \in at : i <= k) - 1)

\* the body of "for test_url in possible_urls" after the fetch, up to the next
\* fetch or the return, lines 224-245.  page.has_title: soup.find("title")
SS_Step(s, ok, page) ==
  LET test_url == Head(s.ss.rest)
      query == s.ss.query
      stripped == StripSiteName(page.title)
      title == IF stripped # <<>> THEN stripped
               ELSE IF YearOf(query) # "" THEN QueryClean(query) \o <<"(2012)">>
               ELSE QueryClean(query)
      found == ok /\ page.has_title
      matches == IF found THEN Append(s.ss.matches, [title |-> title, url |-> test_url])
                 ELSE s.ss.matches
      t == [s EXCEPT !.ss.rest = Tail(@), !.ss.matches = matches, !.ss.fetches = @ + 1]
  IN  IF found /\ Len(matches) >= s.ss.max_results THEN Finish(t, matches)
      ELSE IF t.ss.rest = <<>> THEN Finish(t, matches)
      ELSE t

----------------------------------------------------------------------------
(* search_movie, lines 86-172, and get_movies_from_category, lines 259-313 *)

\* query_clean.lower().strip(), for a query of one word and a year
QueryLower(query) ==
  LET query_clean == QueryClean(query)
  IN  IF query_clean = <<>> THEN "" ELSE Lower(query_clean[1])

\* first_letter = query_lower[0] if query_lower else 'a'
FirstLetter(query_lower) ==
  CASE query_lower = "" -> "a"
    [] query_lower = "ted" -> "t"
    [] query_lower = "leo" -> "l"
    [] OTHER -> "0"

\* search_url, lines 95-107
SearchUrl(base_url, first_letter) ==
  LET isalpha == first_letter \in {"a", "t", "l"}
  IN  IF IsIsaidub(base_url)
        THEN Href("abs", base_url, <<"/tamil-atoz-dubbed-movies/">>
                                     \o (IF isalpha THEN <<first_letter>> ELSE <<>>))
        ELSE Href("abs", base_url, IF isalpha THEN <<"/tamil-movies/", first_letter, "/">>
                                   ELSE <<"/tamil-atoz-movies/">>)

\* url of a page of the A-Z index, lines 116-124
SearchPageUrl(search_url, page) ==
  IF page = 1 THEN search_url
  ELSE IF IsIsaidub(search_url.host)
    THEN [search_url EXCEPT !.path = @ \o <<"/", ToString(page)>>]
    ELSE [search_url EXCEPT !.path = @ \o <<"?page=", ToString(page)>>]

\* is_movie of search_movie, lines 140-144
IsMovieInSearch(a) ==
  /\ \E n \in {"-tamil-movie", "-movie", "-tamil-web-series", "-tamil-dubbed-movie",
                "-tamil-dubbed-web-series"} : In(n, a.href)
  /\ a.text # <<>>

\* is_movie of get_movies_from_category, lines 289-293
IsMovieInCategory(a) ==
  /\ \E n \in {"-tamil-movie", "-tamil-web-series", "-tamil-dubbed-movie",
                "-tamil-dubbed-web-series"} : In(n, a.href)
  /\ a.text # <<>>

\* any(m["url"] == full_url for m in matches)
HasUrl(movies, full_url) == \E i \in 1..Len(movies) : movies[i].url = full_url

\* search_movie: for div in soup.select("div.f"), lines 133-163
RECURSIVE SearchScan(_, _, _, _, _, _)
SearchScan(f, base_url, query_lower, max_results, matches, found_any) ==
  IF f = <<>> THEN [matches |-> matches, found_any |-> found_any]
  ELSE LET a == Head(f)
           full_url == MakeAbsolute(base_url, a.href)
       IN  IF ~IsMovieInSearch(a)
             THEN SearchScan(Tail(f), base_url, query_lower, max_results, matches,
                             found_any)
           ELSE IF TextInLower(query_lower, a.text) /\ ~HasUrl(matches, full_url)
             THEN LET added == Append(matches, [title |-> a.text, url |-> full_url])
                  IN  IF Len(added) >= max_results
                        THEN [matches |-> added, found_any |-> TRUE]
                        ELSE SearchScan(Tail(f), base_url, query_lower, max_results,
                                        added, TRUE)
           ELSE SearchScan(Tail(f), base_url, query_lower, max_results, matches, TRUE)

\* variant: the loop has no limit of pages
SR_Step_NoPageLimit(s, ok, f) ==
  LET t == [s EXCEPT !.sr.fetches = @ + 1]
      scan == SearchScan(f, s.sr.base_url, s.sr.query_lower, s.sr.max_results,
                         s.sr.matches, FALSE)
      page == s.sr.page + 1
  IN  IF ~ok THEN Finish(t, s.sr.matches)
      ELSE IF ~scan.found_any \/ Len(scan.matches) >= s.sr.max_results
        THEN Finish([t EXCEPT !.sr.matches = scan.matches], scan.matches)
      ELSE [t EXCEPT !.sr.matches = scan.matches, !.sr.page = page,
                     !.sr.url = SearchPageUrl(s.sr.search_url, page)]

\* the body of "while len(matches) < max_results" after the fetch, up to the next
\* fetch or the return, lines 127-172
SR_Step(s, ok, f) ==
  LET t == [s EXCEPT !.sr.fetches = @ + 1]
      scan == SearchScan(f, s.sr.base_url, s.sr.query_lower, s.sr.max_results,
                         s.sr.matches, FALSE)
      page == s.sr.page + 1
  IN  IF ~ok THEN Finish(t, s.sr.matches)
      ELSE IF ~scan.found_any \/ Len(scan.matches) >= s.sr.max_results
        THEN Finish([t EXCEPT !.sr.matches = scan.matches], scan.matches)
      ELSE IF page > MaxSearchPages
        THEN Finish([t EXCEPT !.sr.matches = scan.matches, !.sr.page = page],
                    scan.matches)
      ELSE [t EXCEPT !.sr.matches = scan.matches, !.sr.page = page,
                     !.sr.url = SearchPageUrl(s.sr.search_url, page)]

\* url of a page of a category, lines 265-272
CategoryPageUrl(category_url, page) ==
  IF page = 1 THEN category_url
  ELSE IF In("isaidub", category_url)
    THEN [category_url EXCEPT !.path = @ \o <<"?get-page=", ToString(page)>>]
    ELSE [category_url EXCEPT !.path = @ \o <<"?page=", ToString(page)>>]

\* get_movies_from_category: for div in soup.select("div.f"), lines 281-311
RECURSIVE CategoryScan(_, _, _)
CategoryScan(f, baseHost, movies) ==
  IF f = <<>> THEN movies
  ELSE LET a == Head(f)
           full_url == MakeAbsolute(baseHost, a.href)
       IN  IF IsMovieInCategory(a) /\ ~HasUrl(movies, full_url)
             THEN CategoryScan(Tail(f), baseHost,
                               Append(movies, [title |-> a.text, url |-> full_url]))
             ELSE CategoryScan(Tail(f), baseHost, movies)

\* the body of "for page in range(1, max_pages + 1)" after the fetch, up to the
\* next fetch or the return, lines 275-313
CT_Step(s, ok, f) ==
  LET t == [s EXCEPT !.ct.fetches = @ + 1]
      movies == CategoryScan(f, s.ct.category_url.host, s.ct.movies)
  IN  IF ~ok THEN Finish(t, s.ct.movies)
      ELSE IF s.ct.page + 1 > s.ct.max_pages
        THEN Finish([t EXCEPT !.ct.movies = movies], movies)
      ELSE [t EXCEPT !.ct.movies = movies, !.ct.page = @ + 1,
                     !.ct.url = CategoryPageUrl(s.ct.category_url, s.ct.page + 1)]

----------------------------------------------------------------------------
(* The site: what a fetch can return.  Every alphabet lists the elements   *)
(* that the code reading the page can tell apart.                          *)

SeqsUpTo(A, n) == UNION {[1..k -> A] : k \in 0..n}

A(href, text) == [href |-> href, text |-> text]

\* movie landing pages scrape_movie is called with
MovieUrls ==
  { Href("abs", "moviesda15.com", <<"ted", "-2012-tamil-movie">>),
    Href("abs", "moviesda15.com", <<"wednesday", "-season-01", "-tamil-movie">>),
    Href("abs", "moviesda15.com", <<"wednesday", "-season-01", "-web-series">>),
    Href("abs", "moviesda15.com", <<"seasons", "-tamil-movie">>),
    Href("abs", "isaidub.love", <<"movie", "wednesday", "-season-01", "-tamil-dubbed-movie">>) }

\* first a[href] of a div.f on a movie page
MovieAnchors ==
  { A(Href("rel", "", <<"ted", "-original-movie">>), <<"Ted", "Original">>),
    A(Href("rel", "", <<"ted", "-season-01", "-tamil-dubbed-movie">>), <<"Season-01">>),
    A(Href("rel", "", <<"ted", "-720p-hd">>), <<"Ted", "(720p", "HD)">>),
    A(Href("rel", "", <<"/movie/123/">>), <<"Ted", "(480x320)">>),
    A(Href("rel", "", <<"/movie/123/">>), <<"Ted", "(720p", "HD)">>),
    A(Href("rel", "", <<"about">>), <<"About">>) }

\* <img> elements of a movie page
MovieImgs ==
  { [src |-> Href("rel", "", <<"/uploads/posters/", "ted.jpg">>), alt |-> <<"Ted">>],
    [src |-> Href("abs", "moviesda15.com", <<"/uploads/screen_shots/", "1.jpg">>),
     alt |-> <<>>] }

\* <picture> elements of a movie page
MoviePictures ==
  { [srcset |-> <<Href("rel", "", <<"/uploads/posters/", "ted.webp">>)>>, img |-> NoneUrl],
    [srcset |-> <<Href("rel", "", <<"/thumbs/", "ted.webp">>),
                  Href("rel", "", <<"/uploads/posters/", "ted.webp">>)>>,
     img |-> Href("rel", "", <<"/thumbs/", "ted.jpg">>)],
    [srcset |-> <<>>, img |-> Href("rel", "", <<"/uploads/posters/", "ted-2.jpg">>)],
    [srcset |-> <<>>, img |-> Href("rel", "", <<"/thumbs/", "ted.jpg">>)] }

\* the <img> and <picture> elements of a soup, at most b elements in all
ImageSoups(b) ==
  UNION {{[f |-> <<>>, imgs |-> i, pics |-> p] :
            i \in [1..k -> MovieImgs], p \in SeqsUpTo(MoviePictures, b - k)} : k \in 0..b}

\* movie pages of at most b elements
MoviePages(b) ==
  UNION {{[f |-> f, imgs |-> i, pics |-> <<>>] :
            f \in [1..k -> MovieAnchors], i \in SeqsUpTo(MovieImgs, b - k)} : k \in 0..b}

\* first a[href] of a div.f on an Original page
OriginalAnchors ==
  { A(Href("rel", "", <<"ted", "-720p-hd">>), <<"Ted", "(720p", "HD)">>),
    A(Href("rel", "", <<"/movie/123/">>), <<"Ted", "(720p", "HD)">>),
    A(Href("rel", "", <<"/movie/123/">>), <<"Ted", "(480x320)">>),
    A(Href("rel", "", <<"about">>), <<"About">>) }

\* list items of a season page
SeasonItems ==
  { El("li", Href("rel", "", <<"/download/", "page", "3">>), <<"Ep03">>, FALSE, ""),
    El("li", Href("abs", "isaidub.love", <<"/download/", "page", "2">>), <<"Ep02">>,
       FALSE, ""),
    El("li", Href("rel", "", <<"/download/", "page", "1">>), <<"Ep01">>, FALSE, "700MB"),
    El("li", Href("rel", "", <<"/download/", "page", "0">>), <<>>, FALSE, ""),
    El("li", Href("rel", "", <<"about">>), <<"About">>, FALSE, ""),
    El("li", NoneUrl, <<>>, FALSE, "1.2GB") }

\* elements of a quality page reached with is_direct_download
DirectItems ==
  { El("dlink", Href("abs", "downloadpage.site", <<"s1">>), <<"Server", "1">>, FALSE, ""),
    El("li", Href("rel", "", <<"/download/", "page", "1">>), <<"Ted.mp4">>, FALSE, ""),
    El("li", Href("abs", "isaidub.love", <<"/download/", "page", "2">>), <<"Ted", "HD">>,
       FALSE, "700MB"),
    El("li", Href("rel", "", <<"about">>), <<"About">>, FALSE, ""),
    El("li", NoneUrl, <<>>, FALSE, "1.2GB") }

\* elements of a quality page read by get_download_links
DownloadItems ==
  { El("li", Href("rel", "", <<"/download/", "ted-720p">>), <<"Ted", "720p">>, TRUE,
       "700MB"),
    El("li", Href("rel", "", <<"/download/", "ted-hd">>), <<"Ted", "HD">>, FALSE, ""),
    El("a", Href("abs", "moviesda15.com", <<"/download/", "ted-mp4">>), <<"Ted", ".mp4">>,
       FALSE, ""),
    El("li", Href("rel", "", <<"about">>), <<"About">>, TRUE, ""),
    El("li", NoneUrl, <<>>, FALSE, "1.2GB") }

\* elements of an intermediate download page read by _get_server_links
ServerItems ==
  { El("dlink", Href("abs", "downloadpage.site", <<"s1">>), <<"Server", "1">>, FALSE, ""),
    El("dlink", Href("rel", "", <<"s2">>), <<"Server", "2">>, FALSE, ""),
    El("a", Href("abs", "files.example", <<"s3">>), <<"Download">>, FALSE, ""),
    El("a", Href("abs", "moviesda15.com", <<"home">>), <<"Download">>, FALSE, "") }

\* elements of a level-1 server page read by _get_final_mp4_url
Level1Items ==
  { El("dlink", Href("abs", "files.example", <<"ted_1080p", ".mp4">>), <<>>, FALSE, ""),
    El("dlink", Href("rel", "", <<"files", "ted", ".mp4">>), <<>>, FALSE, ""),
    El("dlink", Href("abs", "cdn.biggshare.xyz", <<"f1">>), <<>>, FALSE, ""),
    El("dlink", Href("abs", "downloadpage.site", <<"r1">>), <<>>, FALSE, ""),
    El("dlink", Href("rel", "", <<"/download/", "r2">>), <<>>, FALSE, ""),
    El("a", Href("abs", "dubmv.top", <<"f2">>), <<>>, FALSE, "") }

\* elements of the page read by _follow_final_redirect
Level3Items ==
  { El("a", Href("abs", "files.example", <<"ted", ".MP4">>), <<>>, FALSE, ""),
    El("a", Href("abs", "s1.hotshare.link", <<"f3">>), <<>>, FALSE, ""),
    El("a", Href("abs", "dubmv.top", <<"f2">>), <<>>, FALSE, ""),
    El("a", Href("rel", "", <<"help">>), <<>>, FALSE, "") }

\* self.delay: float(os.getenv("REQUEST_DELAY", "1.0")), in seconds
REQUEST_DELAY == 1

\* time.sleep(self.delay); self.session.get(url, timeout=30, allow_redirects=True)
Sleep == [op |-> "sleep", secs |-> REQUEST_DELAY]
Get == [op |-> "get", secs |-> 0]

\* variant: the RequestException is not caught
_get_soup_Raises(pages, nothing) ==
  {[ok |-> FALSE, raised |-> TRUE, page |-> nothing, did |-> <<Sleep, Get>>]}
    \cup {[ok |-> TRUE, raised |-> FALSE, page |-> p, did |-> <<Sleep, Get>>] : p \in pages}

\* variant: a failed request is issued once more
_get_soup_Retries(pages, nothing) ==
  {[ok |-> FALSE, raised |-> FALSE, page |-> nothing, did |-> <<Sleep, Get, Get>>]}
    \cup {[ok |-> TRUE, raised |-> FALSE, page |-> p, did |-> <<Sleep, Get>>] : p \in pages}

\* _get_soup, lines 55-62: the parsed page, or None when the request fails.
\* `pages` are the pages the site may serve, `nothing` an empty page
_get_soup(pages, nothing) ==
  {[ok |-> FALSE, raised |-> FALSE, page |-> nothing, did |-> <<Sleep, Get>>]}
    \cup {[ok |-> TRUE, raised |-> FALSE, page |-> p, did |-> <<Sleep, Get>>] : p \in pages}

NoMoviePage == [f |-> <<>>, imgs |-> <<>>, pics |-> <<>>]

\* the state after a fetch by call site `site` that served n elements
After(s, site, r, n) ==
  [s EXCEPT !.budget = @ - n, !.failed = IF r.ok THEN "" ELSE site, !.wire = r.did,
            !.fetched = @ + 1]

\* what smart_search_movie reads of a guessed page: its <title>, if any
NoTitlePage == [has_title |-> FALSE, title |-> <<>>]
TitlePages ==
  { NoTitlePage,
    [has_title |-> TRUE, title |-> <<"Ted", "(2012)", "Moviesda">>],
    [has_title |-> TRUE, title |-> <<"isaiDub">>] }

\* the sites, as base_url
BaseUrls == {"moviesda15.com", "isaidub.love"}

\* the queries the search methods are called with
Queries == {<<"Ted">>, <<"Ted", "(2012)">>}

\* max_results arguments
MaxResultsArgs == {0, 1, 2, 10}

\* first a[href] of a div.f on a page of the A-Z index or of a category
ListingAnchors ==
  { A(Href("rel", "", <<"ted", "-2012-tamil-movie">>), <<"Ted", "(2012)">>),
    A(Href("abs", "moviesda15.com", <<"leo", "-tamil-movie">>), <<"Leo">>),
    A(Href("rel", "", <<"ted", "-2012-movie">>), <<"Ted">>),
    A(Href("rel", "", <<"about">>), <<"About">>) }

\* category_url arguments
CategoryUrls ==
  { Href("abs", "moviesda15.com", <<"tamil-2025-movies/">>),
    Href("abs", "isaidub.love", <<"tamil-dubbed-movies/">>) }

\* max_pages arguments: MAX_PAGES of the environment, any integer
MaxPagesArgs == {0, 1, 2, 6}

\* elements for a call of _scan_moviesda_episodes alone: all episodes may exist
ScanBudget == MaxEpisodes + 1

----------------------------------------------------------------------------
(* Init and the calls of the scraper's methods *)

Init ==
  /\ pc = "idle" /\ entry = "" /\ budget = 0 /\ ret = <<>>
  /\ sm = smIdle /\ gq = gqIdle /\ sc = scIdle /\ dl = dlIdle /\ gs = gsIdle
  /\ fm = fmIdle /\ se = seIdle /\ ss = ssIdle /\ sr = srIdle /\ ct = ctIdle
  /\ gi = NoMoviePage /\ fetched = 0
  /\ failed = "" /\ wire = <<>>

\* scraper.scrape_movie(movie_url), lines 895-908
Call_scrape_movie ==
  /\ pc = "idle"
  /\ \E movie_url \in MovieUrls :
       Becomes([Cur EXCEPT !.entry = "scrape_movie", !.pc = "gq_fetch",
                           !.budget = MaxElements,
                           !.sm.result.movie_url = movie_url,
                           !.gq.movie_url = movie_url])

\* scraper.get_quality_options(movie_url)
Call_get_quality_options ==
  /\ pc = "idle"
  /\ \E movie_url \in MovieUrls :
       Becomes([Cur EXCEPT !.entry = "get_quality_options", !.pc = "gq_fetch",
                           !.budget = MaxElements, !.gq.movie_url = movie_url])

\* scraper._scan_moviesda_episodes(movie_url, base_url)
Call_scan_moviesda_episodes ==
  /\ pc = "idle"
  /\ \E movie_url \in MovieUrls :
       Becomes(SC_Call([Cur EXCEPT !.entry = "_scan_moviesda_episodes",
                                   !.budget = ScanBudget],
                       movie_url, movie_url.host))

\* scraper._get_episodes_from_season_page(season_url, base_url)
Call_get_episodes_from_season_page ==
  /\ pc = "idle"
  /\ Becomes([Cur EXCEPT !.entry = "_get_episodes_from_season_page",
                          !.pc = "season_fetch", !.budget = MaxElements,
                          !.gq.movie_url = Href("abs", "isaidub.love", <<"movie", "ted">>)])

\* scraper.get_download_links(quality_url)
Call_get_download_links ==
  /\ pc = "idle"
  /\ Becomes(DL_Call([Cur EXCEPT !.entry = "get_download_links", !.budget = MaxElements],
                      Href("abs", "moviesda15.com", <<"ted", "-720p-hd">>)))

\* scraper.smart_search_movie(query, base_url, max_results), lines 187-221
Call_smart_search_movie ==
  /\ pc = "idle"
  /\ \E query \in Queries, base_url \in BaseUrls, max_results \in MaxResultsArgs :
       LET possible_urls ==
             PossibleUrls(base_url, MovieSlug(QueryClean(query)), YearOf(query))
       IN  Becomes([Cur EXCEPT !.entry = "smart_search_movie", !.pc = "ss_fetch",
                      !.ss = [ssIdle EXCEPT !.base_url = base_url, !.query = query,
                                            !.max_results = max_results,
                                            !.guesses = Len(possible_urls),
                                            !.rest = possible_urls]])

\* scraper.search_movie(query, base_url, max_results), lines 83-114
Call_search_movie ==
  /\ pc = "idle"
  /\ \E query \in Queries, base_url \in BaseUrls, max_results \in MaxResultsArgs :
       LET query_lower == QueryLower(query)
           search_url == SearchUrl(base_url, FirstLetter(query_lower))
           s == [Cur EXCEPT !.entry = "search_movie",
                   !.sr = [srIdle EXCEPT !.base_url = base_url,
                                         !.query_lower = query_lower,
                                         !.max_results = max_results,
                                         !.search_url = search_url, !.page = 1,
                                         !.url = search_url]]
       IN  IF 0 < max_results THEN Becomes([s EXCEPT !.pc = "search_fetch"])
           ELSE Becomes(Finish(s, <<>>))

\* scraper.get_movies_from_category(category_url, max_pages), lines 259-264
Call_get_movies_from_category ==
  /\ pc = "idle"
  /\ \E category_url \in CategoryUrls, max_pages \in MaxPagesArgs :
       LET s == [Cur EXCEPT !.entry = "get_movies_from_category",
                   !.ct = [ctIdle EXCEPT !.category_url = category_url,
                                         !.max_pages = max_pages, !.page = 1,
                                         !.url = category_url]]
       IN  IF 1 <= max_pages THEN Becomes([s EXCEPT !.pc = "cat_fetch"])
           ELSE Becomes(Finish(s, <<>>))

\* scraper.get_movie_images(soup, movie_url): no fetch, lines 326-384
Call_get_movie_images ==
  /\ pc = "idle"
  /\ \E soup \in ImageSoups(MaxElements), movie_url \in MovieUrls :
       Becomes(Finish([Cur EXCEPT !.entry = "get_movie_images", !.gi = soup,
                                  !.gq.movie_url = movie_url],
                      get_movie_images(soup, movie_url.host)))

\* scraper._get_server_links(intermediate_url)
Call_get_server_links ==
  /\ pc = "idle"
  /\ Becomes(GS_Call([Cur EXCEPT !.entry = "_get_server_links", !.budget = MaxElements],
                      Href("abs", "moviesda15.com", <<"/download/", "ted">>), "entry"))

\* scraper._get_final_mp4_url(level1_url)
Call_get_final_mp4_url ==
  /\ pc = "idle"
  /\ Becomes(FM_Call([Cur EXCEPT !.entry = "_get_final_mp4_url", !.budget = MaxElements],
                      Href("abs", "downloadpage.site", <<"s1">>), "entry"))

----------------------------------------------------------------------------
(* One action per _get_soup call site *)

\* get_quality_options: soup = self._get_soup(movie_url), lines 397-414
get_quality_options ==
  /\ pc = "gq_fetch"
  /\ \E r \in _get_soup(MoviePages(budget), NoMoviePage) :
       LET page == r.page
           s == After(Cur, "gq_fetch", r, Len(page.f) + Len(page.imgs) + Len(page.pics))
       IN  IF r.raised THEN Becomes(Raise(Cur))
           ELSE IF ~r.ok THEN Becomes(GQ_Return(s, <<>>, NoImages))
           ELSE Becomes(GQ_Loop([s EXCEPT
                  !.gq.ok = TRUE, !.gq.f = page.f, !.gq.rest = page.f,
                  !.gq.images = get_movie_images(page, gq.movie_url.host)]))

\* variant: an Original page that fails or holds no option does not end the call:
\* the loop over the anchors of the movie page goes on
_get_quality_from_original_page_GoesOn ==
  /\ pc = "orig_fetch"
  /\ \E r \in _get_soup(SeqsUpTo(OriginalAnchors, budget), <<>>) :
       LET s == [After(Cur, "orig_fetch", r, Len(r.page)) EXCEPT
                   !.gq.orig = [fetched |-> TRUE, ok |-> r.ok, f |-> r.page]]
           found == IF r.ok THEN OriginalQualities(r.page, gq.movie_url.host) ELSE <<>>
       IN  IF found # <<>> THEN Becomes(GQ_Return(s, found, gq.images))
           ELSE Becomes(GQ_Loop([s EXCEPT !.gq.rest = Tail(@)]))

\* _get_quality_from_original_page: lines 562-602
_get_quality_from_original_page ==
  /\ pc = "orig_fetch"
  /\ \E r \in _get_soup(SeqsUpTo(OriginalAnchors, budget), <<>>) :
       LET s == [After(Cur, "orig_fetch", r, Len(r.page)) EXCEPT
                   !.gq.orig = [fetched |-> TRUE, ok |-> r.ok, f |-> r.page]]
       IN  IF r.raised THEN Becomes(Raise(Cur))
           ELSE IF ~r.ok THEN Becomes(GQ_Return(s, <<>>, gq.images))
           ELSE Becomes(GQ_Return(s, OriginalQualities(r.page, gq.movie_url.host),
                                  gq.images))

\* _get_episodes_from_season_page: lines 616-664
_get_episodes_from_season_page ==
  /\ pc = "season_fetch"
  /\ \E r \in _get_soup(SeqsUpTo(SeasonItems, budget), <<>>) :
       LET episodes == IF r.ok THEN SeasonEpisodes(r.page, gq.movie_url.host) ELSE <<>>
           s == [After(Cur, "season_fetch", r, Len(r.page)) EXCEPT
                   !.gq.seasons = Append(@, episodes)]
       IN  IF r.raised THEN Becomes(Raise(Cur))
           ELSE IF entry = "_get_episodes_from_season_page"
             THEN Becomes(Finish([s EXCEPT !.se = [ok |-> r.ok, els |-> r.page]],
                                 episodes))
           ELSE Becomes(GQ_SeasonResume(s, episodes))

\* the <title> of an episode page (<<>>: none); the pages of one series share a template
EpisodeTitles ==
  IF sc.episodes = <<>> THEN {<<>>, <<"Wednesday", "Moviesda">>}
  ELSE IF sc.episodes[1].quality = <<"Wednesday">> THEN {<<"Wednesday", "Moviesda">>}
  ELSE {<<>>}

\* _scan_moviesda_episodes: soup = self._get_soup(episode_url), lines 516-549
_scan_moviesda_episodes ==
  /\ pc = "scan_fetch"
  /\ \E r \in _get_soup(SeqsUpTo(ServerItems, IF budget > 0 THEN 1 ELSE 0), <<>>),
        title \in EpisodeTitles :
       IF r.raised THEN Becomes(Raise(Cur))
       ELSE Becomes(SC_Step(After(Cur, "scan_fetch", r, Len(r.page)), r.ok, r.page, title))

\* scrape_movie: quality_soup = self._get_soup(quality["url"]), lines 922-983
scrape_movie ==
  /\ pc = "direct_fetch"
  /\ \E r \in _get_soup(SeqsUpTo(DirectItems, budget), <<>>) :
       LET s == [After(Cur, "direct_fetch", r, Len(r.page)) EXCEPT
                   !.sm.page = [of |-> sm.qi, ok |-> r.ok, els |-> r.page,
                                fetches |-> 1]]
       IN  IF r.raised THEN Becomes(Raise(Cur))
           ELSE IF ~r.ok THEN Becomes(SM_Append(s, <<>>))
           ELSE IF HasDlinkAnchors(r.page)
             THEN Becomes(GS_Call(s, sm.options[sm.qi].url, "sm_dlink"))
           ELSE Becomes(SM_LiLoop([s EXCEPT !.sm.lis = FindAllLi(r.page),
                                            !.sm.downloads = <<>>]))

\* get_download_links: soup = self._get_soup(quality_url), lines 677-737
get_download_links ==
  /\ pc = "dl_fetch"
  /\ \E r \in _get_soup(SeqsUpTo(DownloadItems, budget), <<>>) :
       LET s == After(Cur, "dl_fetch", r, Len(r.page))
       IN  IF r.raised THEN Becomes(Raise(Cur))
           ELSE IF ~r.ok THEN Becomes(DL_Return(s, <<>>))
           ELSE Becomes(DL_Loop([s EXCEPT
                  !.dl.ok = TRUE, !.dl.els = r.page,
                  !.dl.downloads = ExtractDownloads(r.page, dl.quality_url.host),
                  !.dl.di = 1]))

\* _get_server_links: soup = self._get_soup(intermediate_url), lines 751-798
_get_server_links ==
  /\ pc = "gs_fetch"
  /\ \E r \in _get_soup(SeqsUpTo(ServerItems, budget), <<>>) :
       LET s == [After(Cur, "gs_fetch", r, Len(r.page)) EXCEPT
                   !.sm.page.fetches = IF gs.caller = "sm_dlink" THEN @ + 1 ELSE @]
       IN  IF r.raised THEN Becomes(Raise(Cur))
           ELSE IF ~r.ok THEN Becomes(GS_Return(s, <<>>))
           ELSE Becomes(GS_Loop([s EXCEPT !.gs.els = r.page, !.gs.phase = "dlink",
                                          !.gs.rest = SelectDlink(r.page)]))

\* _get_final_mp4_url: soup = self._get_soup(level1_url), lines 815-853
_get_final_mp4_url ==
  /\ pc = "fm_fetch"
  /\ \E r \in _get_soup(SeqsUpTo(Level1Items, budget), <<>>) :
       LET s == [After(Cur, "fm_fetch", r, Len(r.page)) EXCEPT !.fm.fetches = @ + 1]
       IN  IF r.raised THEN Becomes(Raise(Cur))
           ELSE IF ~r.ok THEN Becomes(FM_Return(s, NoneUrl))
           ELSE Becomes(FM_Loop([s EXCEPT
                  !.fm.ok = TRUE, !.fm.dlinks = SelectDlink(r.page),
                  !.fm.rest = SelectDlink(r.page), !.fm.all = FindAllA(r.page)]))

\* _follow_final_redirect: soup = self._get_soup(url), lines 866-883
_follow_final_redirect ==
  /\ pc = "fr_fetch"
  /\ \E r \in _get_soup(SeqsUpTo(Level3Items, budget), <<>>) :
       LET s == [After(Cur, "fr_fetch", r, Len(r.page)) EXCEPT
                   !.fm.fetches = @ + 1,
                   !.fm.redirects = Append(@, [url |-> Head(fm.rest).href, ok |-> r.ok,
                                               els |-> r.page])]
           final_url == IF r.ok THEN FirstTerminal(FindAllA(r.page), cdn_domains_level3)
                        ELSE NoneUrl
       IN  IF r.raised THEN Becomes(Raise(Cur))
           ELSE Becomes(FM_Resume(s, final_url))

\* smart_search_movie: soup = self._get_soup(test_url), lines 221-245
smart_search_movie ==
  /\ pc = "ss_fetch"
  /\ \E r \in _get_soup(TitlePages, NoTitlePage) :
       IF r.raised THEN Becomes(Raise(Cur))
       ELSE Becomes(SS_Step(After(Cur, "ss_fetch", r, 0), r.ok, r.page))

\* search_movie: soup = self._get_soup(url), lines 126-172
search_movie ==
  /\ pc = "search_fetch"
  /\ \E r \in _get_soup(SeqsUpTo(ListingAnchors, MaxListed), <<>>) :
       IF r.raised THEN Becomes(Raise(Cur))
       ELSE Becomes(SR_Step(After(Cur, "search_fetch", r, 0), r.ok, r.page))

\* get_movies_from_category: soup = self._get_soup(url), lines 275-313
get_movies_from_category ==
  /\ pc = "cat_fetch"
  /\ \E r \in _get_soup(SeqsUpTo(ListingAnchors, MaxListed), <<>>) :
       IF r.raised THEN Becomes(Raise(Cur))
       ELSE Becomes(CT_Step(After(Cur, "cat_fetch", r, 0), r.ok, r.page))

Next ==
  \/ Call_scrape_movie
  \/ Call_get_quality_options
  \/ Call_scan_moviesda_episodes
  \/ Call_get_episodes_from_season_page
  \/ Call_get_download_links
  \/ Call_smart_search_movie
  \/ Call_search_movie
  \/ Call_get_movies_from_category
  \/ Call_get_movie_images
  \/ Call_get_server_links
  \/ Call_get_final_mp4_url
  \/ get_quality_options
  \/ _get_quality_from_original_page
  \/ _get_episodes_from_season_page
  \/ _scan_moviesda_episodes
  \/ scrape_movie
  \/ get_download_links
  \/ _get_server_links
  \/ _get_final_mp4_url
  \/ _follow_final_redirect
  \/ smart_search_movie
  \/ search_movie
  \/ get_movies_from_category

Spec == Init /\ [][Next]_vars

----------------------------------------------------------------------------
(* Properties.  The tests below are spelled from the specification's words, *)
(* apart from the operators of the program.                                 *)

Last(seq) == seq[Len(seq)]

\* scheme and host present
IsAbsolute(u) == u.form = "abs" /\ u.host # ""

\* the specification's CDN name fragments and its terminal test
CdnFragments == {"biggshare", "hotshare", "dubshare", "dubmv", "uptodub", "uptomkv"}
HoldsCdnName(h) == \E cdn \in CdnFragments : \E tok \in HrefTokens(h) : cdn \in Sub(Lower(tok))
HoldsMediaExt(h) == \E tok \in HrefTokens(h) : ".mp4" \in Sub(Lower(tok))
TerminalHref(h) == HoldsMediaExt(h) \/ HoldsCdnName(h)

\* a server-link anchor the walker takes for a further redirect page
RedirectHref(h) ==
  /\ h.form = "abs"
  /\ \E tok \in HrefTokens(h) : "download" \in Sub(Lower(tok))
  /\ ~TerminalHref(h)

WalkerCalled == entry = "_get_final_mp4_url"
WalkerReturned == WalkerCalled /\ pc = "done"

\* positions of the terminal anchors among the server-link anchors of the level-1 page
TerminalAt == {i \in 1..Len(fm.dlinks) : TerminalHref(fm.dlinks[i].href)}
FirstTerminalAt == CHOOSE i \in TerminalAt : \A j \in TerminalAt : i <= j
RedirectAt == {i \in 1..Len(fm.dlinks) : RedirectHref(fm.dlinks[i].href)}

\* C1 as stated: a single call of _get_final_mp4_url, _follow_final_redirect
\* included, makes at most 3 fetches whatever the level-1 page holds
C1_AtMostThreeFetches == fm.fetches <= 3

\* C1 amended: a call fetches the level-1 page once and then makes at most one
\* _follow_final_redirect fetch for each non-terminal div.dlink anchor whose href
\* starts with http and contains "download"; a redirect page is never followed further
C1_FetchesBoundedByRedirects ==
  /\ fm.fetches <= 1 + Cardinality(RedirectAt)
  /\ fm.fetches = Len(fm.redirects) + (IF fm.fetches > 0 THEN 1 ELSE 0)
  /\ Len(fm.redirects) > 0 => fm.ok

\* three redirect anchors, none of which resolves: four fetches and a null result
C1_FourFetches ==
  WalkerReturned /\ fm.fetches = 4 /\ Cardinality(RedirectAt) = 3 /\ ret = NoneUrl

\* every URL stored in a MovieResult, apart from the movie_url it was called with
StoredUrls(result) ==
  ({result.poster_url} \ {NoneUrl})
    \cup Range(result.screenshots)
    \cup UNION {UNION {{d.intermediate_url}
                        \cup {l.level1_url : l \in Range(d.direct_links)}
                        \cup ({l.mp4_url : l \in Range(d.direct_links)} \ {NoneUrl})
                       : d \in Range(q.downloads)}
                : q \in Range(result.qualities)}

\* C2 as stated: every URL stored in the MovieResult that scrape_movie returns
\* (intermediate_url, level1_url, non-null mp4_url, poster_url, screenshots) and
\* every quality url is absolute; mp4_url is never a relative href
C2_StoredUrlsAbsolute ==
  (entry = "scrape_movie" /\ pc = "done") =>
    /\ \A u \in StoredUrls(ret) : IsAbsolute(u)
    /\ \A i \in 1..Len(sm.options) : IsAbsolute(sm.options[i].url)

\* C3: _scan_moviesda_episodes fetches episodes 1, 2, .. in ascending order, never
\* an episode after the first one that fails or has no div.dlink anchors, never an
\* episode above 20; it returns one entry per episode before that one (all 20 if
\* none fails), ascending, each with is_direct_download = true
C3_ProbesInOrderUntilFirstGap ==
  /\ Len(sc.probed) <= 20
  /\ \A i \in 1..Len(sc.probed) :
       /\ sc.probed[i].epi_num = i
       /\ i < Len(sc.probed) => sc.probed[i].found
  /\ (entry = "_scan_moviesda_episodes" /\ pc = "done" /\ sc.probed # <<>>) =>
       LET k == Len(sc.probed)
           entries == IF sc.probed[k].found THEN k ELSE k - 1
       IN  /\ sc.probed[k].found => k = 20
           /\ Len(ret) = entries
           /\ \A i \in 1..entries :
                /\ ret[i].is_direct_download
                /\ Last(ret[i].url.path) = (IF i < 10 THEN "0" ELSE "") \o ToString(i)
                /\ IsAbsolute(ret[i].url)

\* episodes 1 to 7 present, episode 8 absent: eight fetches, seven entries
C3_SevenOfEight ==
  /\ entry = "_scan_moviesda_episodes" /\ pc = "done"
  /\ Len(sc.probed) = 8 /\ ~sc.probed[8].found /\ Len(ret) = 7

\* C4 as stated: when the level-1 page is fetched and one of its server-link
\* anchors is terminal, the walker returns the first terminal href in document
\* order, unchanged, after exactly one fetch, also when an anchor to a further
\* "download" page precedes the terminal anchor
C4_FirstTerminalInOneFetch ==
  (WalkerReturned /\ fm.ok /\ TerminalAt # {}) =>
    /\ ret = fm.dlinks[FirstTerminalAt].href
    /\ fm.fetches = 1

\* C4 amended: the same, provided no non-terminal div.dlink anchor whose href
\* starts with http and contains "download" precedes the first terminal anchor;
\* otherwise that redirect is fetched first
C4_FirstTerminalUnlessRedirectBefore ==
  (WalkerReturned /\ fm.ok /\ TerminalAt # {}) =>
    IF \A i \in RedirectAt : i > FirstTerminalAt
      THEN ret = fm.dlinks[FirstTerminalAt].href /\ fm.fetches = 1
      ELSE fm.fetches >= 2

\* a terminal anchor behind a non-terminal one, returned as it stands
C4_TerminalAfterOther ==
  /\ WalkerReturned /\ fm.ok /\ TerminalAt # {} /\ FirstTerminalAt = 2
  /\ HoldsCdnName(fm.dlinks[2].href)
  /\ ret = fm.dlinks[2].href /\ fm.fetches = 1

\* C5 as stated: level-1 page fetched, no terminal anchor on it, an anchor with
\* "download" in its href leading to a fetched page that holds an anchor to a CDN
\* host: the walker returns an href of that page, never null, after two fetches
C5_CdnBehindRedirect ==
  (/\ WalkerReturned /\ fm.ok
   /\ \A i \in 1..Len(fm.all) : ~TerminalHref(fm.all[i].href)
   /\ \E k \in 1..Len(fm.redirects) :
        /\ fm.redirects[k].ok
        /\ \E j \in 1..Len(fm.redirects[k].els) :
             /\ fm.redirects[k].els[j].href # NoneUrl
             /\ HoldsCdnName(fm.redirects[k].els[j].href))
  => /\ ret # NoneUrl
     /\ fm.fetches = 2
     /\ \E j \in 1..Len(fm.redirects[1].els) : ret = fm.redirects[1].els[j].href

\* a list item whose first anchor href contains "/download/"
DownloadItem(e) ==
  /\ e.ctx = "li" /\ e.href # NoneUrl
  /\ \E tok \in HrefTokens(e.href) : "/download/" \in Sub(tok)

SeasonCalled == entry = "_get_episodes_from_season_page"

\* C6: _get_episodes_from_season_page returns one entry per list item whose first
\* anchor href contains "/download/", in the reverse of their document order, each
\* with is_direct_download = true, nothing added and nothing dropped
C6_ReverseDocumentOrder ==
  (SeasonCalled /\ pc = "done" /\ se.ok) =>
    LET items == SelectSeq(se.els, DownloadItem)
        n == Len(items)
    IN  /\ Len(ret) = n
        /\ \A i \in 1..n :
             LET li == items[n + 1 - i]
             IN  /\ ret[i].is_direct_download
                 /\ ret[i].quality = (IF li.text = <<>> THEN <<"Episode">> ELSE li.text)
                 /\ ret[i].url.path = li.href.path
                 /\ IsAbsolute(ret[i].url)

\* document order Ep03, Ep02, Ep01 gives Ep01, Ep02, Ep03
C6_ThreeEpisodesReversed ==
  /\ SeasonCalled /\ pc = "done" /\ se.ok
  /\ [i \in 1..Len(se.els) |-> se.els[i].text] = <<<<"Ep03">>, <<"Ep02">>, <<"Ep01">>>>
  /\ [i \in 1..Len(ret) |-> ret[i].quality] = <<<<"Ep01">>, <<"Ep02">>, <<"Ep03">>>>

\* the quality page scrape_movie fetched last, once its entry is in the result
DirectPageDone ==
  /\ entry = "scrape_movie" /\ sm.page.of >= 1 /\ sm.page.ok
  /\ Len(sm.result.qualities) >= sm.page.of

\* C7: in scrape_movie a direct-download option whose page has div.dlink anchors
\* yields exactly one download entry, also when no server link resolves; a page
\* without them yields one entry per list item whose anchor href contains
\* "/download/", in document order
C7_DirectDownloadEntries ==
  DirectPageDone =>
    LET option == sm.options[sm.page.of]
        downloads == sm.result.qualities[sm.page.of].downloads
        items == SelectSeq(sm.page.els, DownloadItem)
    IN  /\ option.is_direct_download
        /\ IF \E i \in 1..Len(sm.page.els) : sm.page.els[i].ctx = "dlink"
             THEN /\ Len(downloads) = 1
                  /\ downloads[1].filename = option.quality
                  /\ downloads[1].intermediate_url = option.url
             ELSE /\ Len(downloads) = Len(items)
                  /\ \A i \in 1..Len(items) :
                       /\ downloads[i].filename = items[i].text
                       /\ downloads[i].intermediate_url.path = items[i].href.path

\* a page with div.dlink anchors whose server-link page could not be fetched
C7_OneEntryWithoutServers ==
  /\ DirectPageDone /\ failed = "gs_fetch"
  /\ \E i \in 1..Len(sm.page.els) : sm.page.els[i].ctx = "dlink"
  /\ Len(sm.result.qualities[sm.page.of].downloads) = 1
  /\ sm.result.qualities[sm.page.of].downloads[1].direct_links = <<>>

\* no role of the link classifier matches the anchor
NoRole(a) ==
  /\ ~IsOriginalUrl(a.href) /\ ~IsSeasonUrl(a.href) /\ ~HasResolutionInUrl(a.href)
  /\ ~(IsNumericMovie(a.href) /\ HasDimensionText(a.text))
  /\ ~(IsNumericMovie(a.href) /\ TextInLower("original", a.text))

\* the movie URL sends get_quality_options to episode probing
TriggersProbing(u) ==
  /\ \E tok \in HrefTokens(u) : "season" \in Sub(Lower(tok))
  /\ "moviesda" \in Sub(u.host)

\* C8: a movie page that is fetched and has no anchor matching any role, under a
\* URL that does not trigger episode probing: get_quality_options returns no
\* quality and scrape_movie returns qualities = [] with no further fetch
C8_NoRoleNoFetch ==
  (/\ entry = "scrape_movie" /\ gq.ok
   /\ \A i \in 1..Len(gq.f) : NoRole(gq.f[i])
   /\ ~TriggersProbing(gq.movie_url))
  => /\ pc = "done"
     /\ sm.options = <<>>
     /\ ret.qualities = <<>>
     /\ ret.movie_url = gq.movie_url

\* a season URL on the other site, with a page of unclassifiable anchors
C8_SeasonUrlOtherSite ==
  /\ entry = "scrape_movie" /\ gq.ok /\ pc = "done"
  /\ gq.f # <<>> /\ \A i \in 1..Len(gq.f) : NoRole(gq.f[i])
  /\ \E tok \in HrefTokens(gq.movie_url) : "season" \in Sub(Lower(tok))
  /\ ~TriggersProbing(gq.movie_url)
  /\ ret.qualities = <<>>

\* the download entry and the server link that the last failed fetch belongs to
AffectedDownload ==
  IF dl.di >= 2 THEN dl.downloads[dl.di - 1]
  ELSE IF sm.downloads # <<>> THEN Last(sm.downloads)
  ELSE Last(Last(sm.result.qualities).downloads)
AffectedServer ==
  IF gs.servers # <<>> THEN Last(gs.servers) ELSE Last(AffectedDownload.direct_links)

\* what a failed fetch leaves behind in a run of scrape_movie
FailureDegrades ==
  /\ failed \in {"gq_fetch", "orig_fetch"} =>
       pc = "done" /\ ret.qualities = <<>> /\ sm.options = <<>>
  /\ failed = "gq_fetch" => ret.poster_url = NoneUrl /\ ret.screenshots = <<>>
  /\ failed = "scan_fetch" => pc # "scan_fetch"
  /\ failed \in {"direct_fetch", "dl_fetch"} => Last(sm.result.qualities).downloads = <<>>
  /\ failed = "gs_fetch" => AffectedDownload.direct_links = <<>>
  /\ failed = "fm_fetch" => AffectedServer.mp4_url = NoneUrl

\* the work a run of scrape_movie has left, outermost loop first: the div.f anchors
\* and episodes of get_quality_options, the quality options, the downloads of the
\* current option, the anchors of the server-link page, those of the level-1 page
WorkLeft ==
  LET inCall == pc \in {"gs_fetch", "fm_fetch", "fr_fetch"}
  IN  << IF pc = "gq_fetch" THEN budget + 2
         ELSE IF pc \in {"orig_fetch", "season_fetch"} THEN Len(gq.rest)
         ELSE 0,
         IF pc = "scan_fetch" THEN MaxEpisodes + 1 - sc.epi_num ELSE 0,
         IF pc = "done" \/ sm.qi = 0 THEN 0 ELSE Len(sm.options) + 1 - sm.qi,
         IF pc \in {"direct_fetch", "dl_fetch"} THEN budget + 2
         ELSE IF ~inCall THEN 0
         ELSE IF gs.caller = "sm_li" THEN Len(sm.lis)
         ELSE IF gs.caller = "dl" THEN Len(dl.downloads) + 1 - dl.di
         ELSE 1,
         IF pc = "gs_fetch" THEN 3
         ELSE IF ~inCall THEN 0
         ELSE IF gs.phase = "dlink" THEN 2 ELSE 1,
         IF pc \in {"fm_fetch", "fr_fetch"} THEN Len(gs.rest) ELSE 0,
         IF pc = "fm_fetch" THEN budget + 2
         ELSE IF pc = "fr_fetch" THEN Len(fm.rest) ELSE 0 >>

\* a and b are tuples of naturals of one length, a before b in lexicographic order
LexLess(a, b) ==
  \E i \in 1..Len(a) : a[i] < b[i] /\ \A j \in 1..(i - 1) : a[j] = b[j]

\* the positions of a run at a _get_soup call, which always answers
FetchSites == {"gq_fetch", "orig_fetch", "season_fetch", "scan_fetch", "direct_fetch",
               "dl_fetch", "gs_fetch", "fm_fetch", "fr_fetch", "ss_fetch",
               "search_fetch", "cat_fetch"}

\* C9: whichever fetches fail, a run of scrape_movie is never in an error state, a
\* failed fetch only leaves the affected list empty or the affected mp4_url null,
\* and the run reaches its return with a MovieResult: before the return it is at a
\* fetch, and every step leaves less work than there was
C9_FailuresNeverAbort ==
  /\ [](entry = "scrape_movie" =>
          /\ pc # "raised"
          /\ FailureDegrades
          /\ pc # "done" => pc \in FetchSites
          /\ pc = "done" => ret = sm.result /\ ret.movie_url = gq.movie_url)
  /\ [][entry = "scrape_movie" => LexLess(WorkLeft', WorkLeft)]_vars

\* a run that lost a server-link page and still returned
C9_ReturnedAfterFailure ==
  /\ entry = "scrape_movie" /\ pc = "done" /\ failed = "gs_fetch"
  /\ ret.qualities # <<>>

\* C10: the qualities of the result are, in order, the quality options with their
\* labels, one entry each once scrape_movie returns; an option whose page fails to
\* fetch contributes its label with no downloads, and the later options follow
C10_OneEntryPerOption ==
  entry = "scrape_movie" =>
    LET done == sm.result.qualities
    IN  /\ Len(done) <= Len(sm.options)
        /\ \A i \in 1..Len(done) : done[i].quality = sm.options[i].quality
        /\ (pc # "done" /\ sm.qi >= 1) => Len(done) = sm.qi - 1
        /\ pc = "done" => Len(ret.qualities) = Len(sm.options)
        /\ failed \in {"direct_fetch", "dl_fetch"} =>
             /\ done # <<>>
             /\ Last(done).downloads = <<>>
             /\ Last(done).quality = sm.options[Len(done)].quality

\* the page of the first of two options failed, the second brought its downloads
C10_SecondAfterFailedFirst ==
  /\ entry = "scrape_movie" /\ pc = "done" /\ Len(sm.options) = 2
  /\ sm.page.of = 1 /\ ~sm.page.ok
  /\ ret.qualities[1].downloads = <<>>
  /\ ret.qualities[2].downloads # <<>>

\* an anchor that leads to the Original page, lines 421 and 429
IsOriginalAnchor(a) ==
  IsOriginalUrl(a.href) \/ (IsNumericMovie(a.href) /\ TextInLower("original", a.text))

\* a call of get_quality_options itself has returned after reading the movie page
GQ_Done == entry = "get_quality_options" /\ pc = "done" /\ gq.ok

OriginalAt == {i \in 1..Len(gq.f) : IsOriginalAnchor(gq.f[i])}
FirstOriginalAt == CHOOSE i \in OriginalAt : \A k \in OriginalAt : i <= k

\* what the call returns when it follows the Original anchor
FromOriginalPage ==
  /\ gq.orig.fetched
  /\ ret[1] = IF gq.orig.ok THEN OriginalQualities(gq.orig.f, gq.movie_url.host)
                            ELSE <<>>

\* C11 as stated: a movie page with an Original anchor gives the options of the
\* Original page, whatever Season or direct anchors it has and wherever they stand
C11_OriginalAlwaysWins ==
  GQ_Done /\ OriginalAt # {} => FromOriginalPage

\* C11: a movie page with an Original anchor gives the options of the Original page,
\* whatever direct anchors it has and wherever they stand, unless a Season anchor
\* before the first Original anchor leads to a page that yields episodes: then those
\* episodes are returned and the Original page is not fetched.  Season anchors behind
\* the first Original anchor are never followed
C11_OriginalUnlessEarlierSeason ==
  GQ_Done /\ OriginalAt # {} =>
    LET before == {i \in 1..(FirstOriginalAt - 1) : IsSeasonUrl(gq.f[i].href)}
        n == Len(gq.seasons)
    IN  /\ n <= Cardinality(before)
        /\ \A k \in 1..(n - 1) : gq.seasons[k] = <<>>
        /\ IF n > 0 /\ gq.seasons[n] # <<>>
             THEN ~gq.orig.fetched /\ ret[1] = gq.seasons[n]
             ELSE n = Cardinality(before) /\ FromOriginalPage

\* the Original anchor stands behind a direct anchor and behind a Season anchor whose
\* page yields nothing, and its page gives the options returned
C11_OriginalBehindOthers ==
  /\ GQ_Done /\ Len(gq.f) = 3
  /\ HasResolutionInUrl(gq.f[1].href) /\ IsSeasonUrl(gq.f[2].href)
  /\ IsOriginalAnchor(gq.f[3])
  /\ gq.seasons = << <<>> >> /\ gq.orig.ok /\ ret[1] # <<>>

\* the two direct roles as C12 and C19 name them
IsQualityDirect(a) == HasResolutionInUrl(a.href)
IsNumericQualityDirect(a) ==
  IsNumericMovie(a.href) /\ (HasResolutionText(a.text) \/ HasDimensionText(a.text))

\* one option for every anchor with a direct role, in document order
DirectOptions(f, baseHost) ==
  LET kept == SelectSeq(f, LAMBDA a : IsQualityDirect(a) \/ IsNumericQualityDirect(a))
  IN  [i \in 1..Len(kept) |->
         Quality(kept[i].text, MakeAbsolute(baseHost, kept[i].href),
                 ~IsQualityDirect(kept[i]))]

\* C12 as stated: on a movie page without an Original anchor and without a Season
\* anchor that yields episodes (and when no episode is probed), the options returned
\* are one for every QualityDirect or NumericQualityDirect anchor, in document order,
\* with is_direct_download set exactly for the numeric ones
C12_EveryDirectAnchorInOrder ==
  (/\ GQ_Done /\ OriginalAt = {} /\ sc.probed = <<>>
   /\ \A k \in 1..Len(gq.seasons) : gq.seasons[k] = <<>>)
    => ret[1] = DirectOptions(gq.f, gq.movie_url.host)

\* C14 as stated: one call of smart_search_movie fetches at most 3 guessed URLs
C14_AtMostThreeGuesses ==
  entry = "smart_search_movie" => ss.fetches <= 3

\* the guessed URLs of a call: four for a query with a year on the moviesda site, two
\* for a query without a year there or with a year on the isaidub site, one otherwise
GuessCount ==
  IF IsIsaidub(ss.base_url) THEN (IF YearOf(ss.query) # "" THEN 2 ELSE 1)
  ELSE (IF YearOf(ss.query) # "" THEN 4 ELSE 2)

\* C14: one call of smart_search_movie fetches each of its guessed URLs at most once,
\* in order, and there are at most 4 of them (4, 2 or 1 by site and year), whatever
\* max_results is and whichever fetches fail; it stops earlier only when the matches
\* found reach max_results
C14_AtMostFourGuesses ==
  entry = "smart_search_movie" =>
    /\ ss.guesses = GuessCount
    /\ ss.fetches + Len(ss.rest) = ss.guesses
    /\ ss.fetches <= 4 /\ Len(ss.matches) <= ss.fetches
    /\ pc = "done" =>
         ret = ss.matches /\ (ss.rest = <<>> \/ Len(ss.matches) >= ss.max_results)

\* a call whose guessed URLs all fail to fetch: four fetches, no match
C14_FourFailedGuesses ==
  /\ entry = "smart_search_movie" /\ pc = "done" /\ failed = "ss_fetch"
  /\ ss.fetches = 4 /\ ret = <<>>

\* C15 as stated: no call of search_movie or get_movies_from_category fetches more
\* than 5 listing pages
C15_AtMostFivePages ==
  /\ entry = "search_movie" => sr.fetches <= 5
  /\ entry = "get_movies_from_category" => ct.fetches <= 5

\* C15: a call of search_movie fetches at most 5 pages of the A-Z index, one per page
\* number, for every max_results and every page content; a call of
\* get_movies_from_category fetches at most max_pages pages, one per page number,
\* and fewer only when a fetch fails
C15_FiveIndexPagesMaxPagesCategoryPages ==
  /\ entry = "search_movie" =>
       /\ sr.fetches <= MaxSearchPages
       /\ pc = "search_fetch" =>
            /\ sr.fetches = sr.page - 1
            /\ sr.url = SearchPageUrl(sr.search_url, sr.page)
            /\ Len(sr.matches) < sr.max_results
  /\ entry = "get_movies_from_category" =>
       /\ ct.fetches <= ct.max_pages
       /\ pc = "cat_fetch" =>
            ct.fetches = ct.page - 1 /\ ct.url = CategoryPageUrl(ct.category_url, ct.page)
       /\ pc = "done" => ct.fetches = ct.max_pages \/ failed = "cat_fetch"

\* five pages of the index that list movies and none that matches: the call ends
C15_FiveIndexPagesNoMatch ==
  /\ entry = "search_movie" /\ pc = "done" /\ failed = ""
  /\ sr.fetches = MaxSearchPages /\ sr.max_results = 10 /\ ret = <<>>

\* C13 as stated: while scrape_movie processes a direct-download option, the URL of
\* that option is requested exactly once, also when its page has div.dlink anchors
C13_OptionUrlFetchedOnce ==
  entry = "scrape_movie" => sm.page.fetches <= 1

AnchorsRead == Range(gq.f) \cup Range(gq.orig.f)

\* C19 as stated: an anchor is accepted as a direct option by the movie-page loop
\* exactly when the Original-page loop accepts it, for numeric hrefs as for hrefs
\* with a resolution token
C19_SameRoleOnBothPages ==
  \A a \in AnchorsRead :
    AddQuality(<<>>, a, gq.movie_url.host) # <<>>
      <=> OriginalQualities(<<a>>, gq.movie_url.host) # <<>>

\* a call of get_download_links itself has returned after reading the quality page
DL_Done == entry = "get_download_links" /\ pc = "done" /\ dl.ok

\* the absolute URLs of the anchors of the quality page that pass a test, in order
DownloadUrls(Test(_)) ==
  LET kept == SelectSeq(FindAllA(dl.els), Test)
  IN  [i \in 1..Len(kept) |-> MakeAbsolute(dl.quality_url.host, kept[i].href)]

HoldsDownload(e) == In("/download/", e.href)
CoralDownload(e) == e.ctx = "li" /\ e.coral /\ HoldsDownload(e)
TextDownload(e) ==
  HoldsDownload(e) /\ (TextInLower(".mp4", e.text) \/ TextInLower("hd", e.text))

\* the server links of each entry come from its own intermediate URL, entry by entry
ResolvedAgainstOwnUrl ==
  entry = "get_download_links" /\ gs.caller = "dl" =>
    /\ dl.di \in 1..Len(dl.downloads)
    /\ gs.url = dl.downloads[dl.di].intermediate_url
    /\ \A k \in dl.di..Len(dl.downloads) : dl.downloads[k].direct_links = <<>>

\* C20 as stated: get_download_links returns one entry for every anchor whose href
\* holds '/download/', in document order, whatever its CSS class or text and whatever
\* other anchors match, each resolved against its own intermediate URL
C20_EveryDownloadAnchor ==
  /\ ResolvedAgainstOwnUrl
  /\ DL_Done =>
       [i \in 1..Len(ret) |-> ret[i].intermediate_url] = DownloadUrls(HoldsDownload)

\* C20: get_download_links returns one entry for every "li a.coral" anchor whose href
\* holds '/download/', in document order; only when there is none, one entry for
\* every anchor whose href holds '/download/' and whose text holds '.mp4' or 'hd';
\* each entry is resolved against its own intermediate URL
C20_CoralElseTextAnchors ==
  /\ ResolvedAgainstOwnUrl
  /\ DL_Done =>
       [i \in 1..Len(ret) |-> ret[i].intermediate_url]
         = IF DownloadUrls(CoralDownload) # <<>> THEN DownloadUrls(CoralDownload)
           ELSE DownloadUrls(TextDownload)

\* a page with a coral and another '/download/' anchor: one entry, resolved
C20_OtherAnchorSkipped ==
  /\ DL_Done /\ Len(DownloadUrls(HoldsDownload)) = 2
  /\ Len(ret) = 1 /\ ret[1].direct_links # <<>>

\* the hrefs a walker call has read on its level-1 page and on its redirect pages
HrefsRead ==
  {fm.all[i].href : i \in 1..Len(fm.all)}
    \cup UNION {{p.els[j].href : j \in 1..Len(p.els)} \ {NoneUrl} : p \in Range(fm.redirects)}

\* C17 as stated: an href is terminal for _get_final_mp4_url exactly when it is
\* terminal for _follow_final_redirect: both test the same CDN name fragments
C17_SameTerminalTest ==
  \A h \in HrefsRead :
    IsTerminal(h, cdn_domains_level2) <=> IsTerminal(h, cdn_domains_level3)

\* the server links recorded so far by the running _get_server_links call
Recorded == IF entry = "_get_server_links" /\ pc = "done" THEN ret ELSE gs.servers

\* the walker call made by _get_server_links returns with this step
WalkerReturns == fm.caller = "gs" /\ fm'.fetches = 0

\* C18: below the intermediate page of _get_server_links there is the level-1 page of
\* _get_final_mp4_url and below it one page of _follow_final_redirect, whose URL is
\* an href of the level-1 page: nothing read on a redirect page is ever fetched.
\* Every walker call leaves one server link, with mp4_url null unless the walker
\* came upon a terminal href
C18_ThreeLevelsThenNull ==
  /\ [](/\ pc = "fm_fetch" /\ fm.caller = "gs" => gs.phase # "" /\ fm.fetches = 0
        /\ pc = "fr_fetch" => fm.ok /\ fm.fetches = 1 + Len(fm.redirects)
        /\ \A k \in 1..Len(fm.redirects) :
             /\ \E i \in 1..Len(fm.dlinks) : fm.redirects[k].url = fm.dlinks[i].href
             /\ fm.redirects[k].url.form = "abs"
        /\ \A i \in 1..Len(gs.servers) :
             gs.servers[i].mp4_url # NoneUrl => TerminalHref(gs.servers[i].mp4_url)
        /\ WalkerReturned /\ (\A h \in HrefsRead : ~TerminalHref(h)) => ret = NoneUrl)
  /\ [][entry = "_get_server_links" /\ WalkerReturns =>
          /\ Len(Recorded') = Len(Recorded) + 1
          /\ Last(Recorded').level1_url = Head(gs.rest).href
          /\ failed' = "fm_fetch" => Last(Recorded').mp4_url = NoneUrl]_vars

\* a server link whose redirect page was fetched and held nothing terminal
C18_NullAtThirdLevel ==
  /\ entry = "_get_server_links" /\ pc = "done" /\ failed = ""
  /\ wire # <<>> /\ ret # <<>> /\ Last(ret).mp4_url = NoneUrl
  /\ Last(ret).level1_url.host = "downloadpage.site"

\* a call of get_movie_images itself has returned
GI_Done == entry = "get_movie_images" /\ pc = "done"

\* the poster found from the <img> elements alone
PosterFromImgs == ScanImgs(gi.imgs, gq.movie_url.host, NoImages).poster_url

\* C21 as stated: a poster found from an <img> element is not changed by any
\* <picture>; a poster taken from a <picture> holds '/uploads/posters/' in its path
C21_PictureOnlyWhilePosterUnset ==
  GI_Done =>
    /\ PosterFromImgs # NoneUrl => ret.poster_url = PosterFromImgs
    /\ ret.poster_url # PosterFromImgs => In("/uploads/posters/", ret.poster_url)

\* the list items of the season page; those with a download marker
SeasonLis == FindAllLi(se.els)
MarkerAt == {i \in 1..Len(SeasonLis) : DownloadItem(SeasonLis[i])}

\* the size of the last size line from item i up to the item before the next marker
OwnSize(i) ==
  LET later == {k \in MarkerAt : k > i}
      upto == IF later = {} THEN Len(SeasonLis)
              ELSE (CHOOSE k \in later : \A m \in later : k <= m) - 1
      lines == {k \in i..upto : SizeMatch(SeasonLis[k])}
  IN  IF lines = {} THEN None
      ELSE SeasonLis[CHOOSE k \in lines : \A m \in lines : m <= k].size

\* C22: after the reversal every entry returned by _get_episodes_from_season_page
\* carries the size of the last size line between its own list item and the next
\* download-marker item (none if there is no such line); size lines before the first
\* marker belong to no entry
C22_EntryKeepsOwnSize ==
  (SeasonCalled /\ pc = "done" /\ se.ok) =>
    /\ Len(ret) = Cardinality(MarkerAt)
    /\ \A i \in MarkerAt :
         LET n == Cardinality({k \in MarkerAt : k >= i})
         IN  /\ ret[n].url = MakeAbsolute(gq.movie_url.host, SeasonLis[i].href)
             /\ ret[n].file_size = OwnSize(i)

\* a size line before any entry, then an entry whose own size is overwritten by a
\* later line, then an entry without a size
C22_DroppedOverwrittenNone ==
  /\ SeasonCalled /\ pc = "done" /\ se.ok /\ Len(se.els) = 4
  /\ MarkerAt = {2, 4} /\ SizeMatch(SeasonLis[1])
  /\ SeasonLis[2].size = "700MB" /\ SeasonLis[3].size = "1.2GB"
  /\ Len(ret) = 2 /\ ret[1].file_size = None /\ ret[2].file_size = "1.2GB"

\* C23 as stated: on a movie page with several Original anchors the page of the first
\* one is fetched and its result, also an empty one, is what get_quality_options
\* returns; no other indirection page is fetched and no episode is probed
C23_FirstOriginalAlwaysFinal ==
  (GQ_Done /\ Cardinality(OriginalAt) >= 2) =>
    FromOriginalPage /\ gq.seasons = <<>> /\ sc.probed = <<>>

\* C23: get_quality_options fetches at most one Original page, that of the first
\* Original anchor in document order, and the call returns with that fetch: its
\* result, also when empty or failed, is final, no page is fetched after it, no direct
\* anchor of the movie page is returned and no episode is probed.  The Original page
\* is left unfetched only when a Season anchor before it has yielded the episodes
\* that are returned
C23_FirstOriginalFinalOnceReached ==
  /\ [](entry = "get_quality_options" =>
          /\ pc = "orig_fetch" =>
               /\ OriginalAt # {} /\ ~gq.orig.fetched
               /\ Len(gq.f) - Len(gq.rest) + 1 = FirstOriginalAt
          /\ (GQ_Done /\ gq.orig.fetched) => FromOriginalPage /\ sc.probed = <<>>
          /\ (GQ_Done /\ OriginalAt # {} /\ ~gq.orig.fetched) =>
               /\ gq.seasons # <<>> /\ Last(gq.seasons) # <<>>
               /\ ret[1] = Last(gq.seasons) /\ sc.probed = <<>>)
  /\ [][entry = "get_quality_options" /\ pc = "orig_fetch" => pc' = "done"]_vars

\* a direct anchor and two Original anchors; the first Original page fails to fetch
\* and the call returns nothing
C23_FailedFirstOfTwo ==
  /\ GQ_Done /\ Len(gq.f) = 3 /\ HasResolutionInUrl(gq.f[1].href)
  /\ OriginalAt = {2, 3}
  /\ gq.orig.fetched /\ ~gq.orig.ok /\ failed = "orig_fetch" /\ ret[1] = <<>>

\* in a list of server links no element but the last has a media URL
OnlyLastResolved(servers) ==
  \A i \in 1..(Len(servers) - 1) : servers[i].mp4_url = NoneUrl

\* the anchors of the intermediate page that _get_server_links sends to the walker,
\* in document order: those of div.dlink, or of the whole page if there is none
ServerCandidates ==
  LET dlinks == SelectSeq(SelectDlink(gs.els), LAMBDA a : IsServerLink("dlink", a))
  IN  IF dlinks # <<>> THEN dlinks
      ELSE SelectSeq(FindAllA(gs.els), LAMBDA a : IsServerLink("fallback", a))

\* C24: in every list of _get_server_links at most the last ServerLink has a media
\* URL; the walker is never called once a server has resolved; the list returned
\* holds the candidate servers in document order up to the first that resolves,
\* those behind it neither fetched nor recorded
C24_StopsAtFirstResolved ==
  /\ OnlyLastResolved(Recorded)
  /\ \A q \in Range(sm.result.qualities) : \A d \in Range(q.downloads) :
       OnlyLastResolved(d.direct_links)
  /\ \A d \in Range(dl.downloads) : OnlyLastResolved(d.direct_links)
  /\ (pc \in {"fm_fetch", "fr_fetch"} /\ fm.caller = "gs") =>
       \A i \in 1..Len(gs.servers) : gs.servers[i].mp4_url = NoneUrl
  /\ (entry = "_get_server_links" /\ pc = "done" /\ gs.phase # "") =>
       /\ Len(ret) <= Len(ServerCandidates)
       /\ \A i \in 1..Len(ret) : ret[i].level1_url = ServerCandidates[i].href
       /\ Len(ret) < Len(ServerCandidates) => ret # <<>> /\ Last(ret).mp4_url # NoneUrl

\* three servers: the first does not resolve, the second does, the third is left out
C24_SecondOfThreeResolves ==
  /\ entry = "_get_server_links" /\ pc = "done" /\ Len(ServerCandidates) = 3
  /\ Len(ret) = 2 /\ ret[1].mp4_url = NoneUrl /\ ret[2].mp4_url # NoneUrl

\* the sizes of the size lines of the quality page, in document order
SizesOnPage ==
  LET lines == SelectSeq(FindAllLi(dl.els), SizeMatch)
  IN  [i \in 1..Len(lines) |-> lines[i].size]

\* C25: in the list returned by get_download_links no entry but the last carries a
\* file_size, and the last carries the size of the last size line of the page (none
\* if the page has no size line)
C25_OnlyLastEntrySized ==
  (DL_Done /\ ret # <<>>) =>
    /\ \A i \in 1..(Len(ret) - 1) : ret[i].file_size = None
    /\ Last(ret).file_size = IF SizesOnPage = <<>> THEN None ELSE Last(SizesOnPage)

\* two entries whose own list items each hold a size, then one more size line: the
\* first entry has no size, the last has that of the last line
C25_EarlierEntryUnsized ==
  /\ DL_Done /\ SizesOnPage = <<"700MB", "700MB", "1.2GB">>
  /\ Len(ret) = 2 /\ ret[1].file_size = None /\ ret[2].file_size = "1.2GB"

\* C26: a run of scrape_movie is, until it returns, at a fetch that always answers;
\* every step is one fetch and leaves less work than there was (the loops run over
\* the finitely many elements of pages already fetched, the episode probing stops at
\* episode 20, the walker goes one redirect deep); every fetch but the first two is
\* owed to an element of a page fetched before, no element to more than two: the run
\* returns after at most 2 + 2n fetches when its pages hold n elements in all
C26_ReturnsAfterBoundedFetches ==
  /\ [](entry = "scrape_movie" =>
          /\ pc \in FetchSites \cup {"done"}
          /\ fetched <= 2 + 2 * (MaxElements - budget)
          /\ pc = "scan_fetch" => sc.epi_num \in 1..MaxEpisodes
          /\ pc = "fr_fetch" => fm.fetches <= Len(fm.dlinks) - Len(fm.rest) + 1)
  /\ [][entry = "scrape_movie" =>
          fetched' = fetched + 1 /\ LexLess(WorkLeft', WorkLeft)]_vars

\* the longest run: the episode probing finds an episode for every element the site
\* serves, and every episode page is fetched once more as a quality option
C26_LongestRunReturned ==
  /\ entry = "scrape_movie" /\ pc = "done"
  /\ fetched = 2 + 2 * MaxElements /\ Len(ret.qualities) = MaxElements

====
